---------------------------- MODULE Spec2Model ----------------------------
(***************************************************************************)
(* ctxport: layered configuration (Config, ConfigManager), file filtering  *)
(* (FileFilter, mime_utils), language detection (FileHandler) and the      *)
(* export loop (CodeExporter).                                             *)
(*                                                                         *)
(* Python str values are TLA+ strings; Len, Head, Tail, SubSeq and \o act  *)
(* on them character by character.  A Python dict is a function whose      *)
(* DOMAIN is its key set, a set is a set, a list is a sequence, and None   *)
(* is the record None.                                                     *)
(***************************************************************************)
EXTENDS Integers, Sequences, FiniteSets, TLC

VARIABLES
    \* Config.merge applied to two Configs, and to three in both groupings
    \* (config.py)
    cfgA, cfgB, cfgC, merged, regrouped,
    \* the dict, set and list objects of the process, and for the receiver,
    \* the argument and the result of a merge the object each field refers to
    heap, refA, refB, refMerged,
    \* the environment of a ConfigManager: whether XDG_CONFIG_HOME is set, the
    \* home directory, the files $XDG_CONFIG_HOME/ctxport/ctxport.json and
    \* ~/.config/ctxport/ctxport.json, each directory's .ctxport.json and
    \* context.ignore, and how often the files were changed
    xdg_config_home, home, xdg_file, dotconfig_file, dir_files, ignore_files,
    fs_changes,
    \* Config.DEFAULT_CONFIG, ConfigManager._global_config and _cached_configs,
    \* and the outcome of the latest call on the manager
    DEFAULT_CONFIG, _global_config, _cached_configs, result,
    \* the files below the exported directory, the CodeExporter's directory
    \* and config, the calls its formatter has received, and the outcome of
    \* the latest call on the exporter
    tree, exporter, formatter, exported,
    \* a FileFilter and a FileHandler constructed on a Config, and the
    \* outcome of the latest call of each of their methods
    file_filter, file_handler, classified,
    \* a run of main: the parsed arguments, what the run finds around it
    \* (what the directory argument names, whether the output file and the
    \* example config can be written, whether a clipboard tool works), and
    \* where the run stands with what it has printed, written and returned
    args, env, run

mergeVars == <<cfgA, cfgB, cfgC, merged, regrouped, heap, refA, refB, refMerged>>
fsVars == <<xdg_config_home, home, xdg_file, dotconfig_file, dir_files, ignore_files,
            fs_changes>>
managerVars == <<DEFAULT_CONFIG, _global_config, _cached_configs, result>>
exportVars == <<tree, exporter, formatter, exported>>
classifyVars == <<file_filter, file_handler, classified>>
mainVars == <<args, env, run>>
vars == <<mergeVars, fsVars, managerVars, exportVars, classifyVars, mainVars>>

None == [py_none |-> TRUE]

(***************************************************************************)
(* Bounds of the model.                                                    *)
(***************************************************************************)
\* longest ignore_patterns list of a Config handed to merge
MaxPatterns == 2
\* how many times config files are written or removed in one run
MaxFsChanges == 2

(***************************************************************************)
(* Python str and dict helpers.                                            *)
(***************************************************************************)
EmptyDict == [k \in {} |-> ""]

\* s.startswith(p)
StartsWith(s, p) == Len(s) >= Len(p) /\ SubSeq(s, 1, Len(p)) = p

\* s.endswith(p)
EndsWith(s, p) == Len(s) >= Len(p) /\ SubSeq(s, Len(s) - Len(p) + 1, Len(s)) = p

\* {**a, **b}
DictUnion(a, b) ==
    [k \in (DOMAIN a) \cup (DOMAIN b) |-> IF k \in DOMAIN b THEN b[k] ELSE a[k]]

\* the values of a list
Range(s) == {s[i] : i \in 1..Len(s)}

\* list(dict.fromkeys(s)): a dict keeps the insertion order of its keys and a
\* repeated key keeps its first position
RECURSIVE FromKeys(_)
FromKeys(s) ==
    IF s = <<>> THEN <<>>
    ELSE LET front == FromKeys(SubSeq(s, 1, Len(s) - 1))
             last == s[Len(s)]
         IN IF last \in Range(front) THEN front ELSE Append(front, last)

(***************************************************************************)
(* Config (config.py).                                                     *)
(***************************************************************************)
\* the dataclass and its field defaults
Config(lm, fm, te, ip, dl) ==
    [language_map |-> lm, filename_map |-> fm, text_extensions |-> te,
     ignore_patterns |-> ip, default_language |-> dl]

EmptyConfig == Config(EmptyDict, EmptyDict, {}, <<>>, "")

DefaultLanguageMap ==
    ".py" :> "python" @@
    ".js" :> "javascript" @@
    ".jsx" :> "jsx" @@
    ".ts" :> "typescript" @@
    ".tsx" :> "tsx" @@
    ".html" :> "html" @@
    ".css" :> "css" @@
    ".scss" :> "scss" @@
    ".sass" :> "sass" @@
    ".json" :> "json" @@
    ".yaml" :> "yaml" @@
    ".yml" :> "yaml" @@
    ".md" :> "markdown" @@
    ".sh" :> "bash" @@
    ".bash" :> "bash" @@
    ".zsh" :> "zsh" @@
    ".fish" :> "fish" @@
    ".ps1" :> "powershell" @@
    ".c" :> "c" @@
    ".cpp" :> "cpp" @@
    ".cc" :> "cpp" @@
    ".cxx" :> "cpp" @@
    ".h" :> "c" @@
    ".hpp" :> "cpp" @@
    ".hxx" :> "cpp" @@
    ".rs" :> "rust" @@
    ".go" :> "go" @@
    ".java" :> "java" @@
    ".kt" :> "kotlin" @@
    ".swift" :> "swift" @@
    ".rb" :> "ruby" @@
    ".php" :> "php" @@
    ".sql" :> "sql" @@
    ".r" :> "r" @@
    ".R" :> "r" @@
    ".m" :> "matlab" @@
    ".jl" :> "julia" @@
    ".tex" :> "latex" @@
    ".xml" :> "xml" @@
    ".vue" :> "vue" @@
    ".svelte" :> "svelte"

DefaultFilenameMap ==
    "dockerfile" :> "dockerfile" @@
    "makefile" :> "makefile" @@
    "gnumakefile" :> "makefile" @@
    "rakefile" :> "ruby" @@
    "gemfile" :> "ruby" @@
    "vagrantfile" :> "ruby" @@
    "jenkinsfile" :> "groovy" @@
    "fastfile" :> "ruby" @@
    "procfile" :> "yaml" @@
    "podfile" :> "ruby" @@
    "cakefile" :> "coffeescript" @@
    "gulpfile" :> "javascript" @@
    "gruntfile" :> "javascript"

DefaultTextExtensions ==
    {".txt", ".md", ".yml", ".yaml", ".json", ".xml",
     ".html", ".css", ".js", ".jsx", ".ts", ".tsx",
     ".py", ".rb", ".php", ".java", ".cpp", ".c",
     ".h", ".rs", ".go", ".sh", ".bash", ".zsh",
     ".fish", ".ps1", ".dockerfile", ".gitignore", ".env", ".conf",
     ".cfg", ".ini", ".toml", ".lock", ".sum", ".mod"}

DefaultIgnorePatterns ==
    <<".git/", "__pycache__/", "*.pyc", "*.pyo", "*.pyd", ".DS_Store",
      ".vscode/", ".idea/", "node_modules/", "venv/", ".env/", "*.min.js",
      "*.min.css">>

\* the Config that get_default_config builds
DefaultConfigValue ==
    Config(DefaultLanguageMap, DefaultFilenameMap, DefaultTextExtensions,
           DefaultIgnorePatterns, "")

\* merge with the receiver's map entries kept on a shared key
merge_receiver_wins(self, other) ==
    Config(DictUnion(other.language_map, self.language_map),
           DictUnion(other.filename_map, self.filename_map),
           self.text_extensions \cup other.text_extensions,
           FromKeys(self.ignore_patterns \o other.ignore_patterns),
           IF other.default_language # "" THEN other.default_language
           ELSE self.default_language)

\* merge that only skips the argument's patterns the receiver already lists
merge_append_missing(self, other) ==
    Config(DictUnion(self.language_map, other.language_map),
           DictUnion(self.filename_map, other.filename_map),
           self.text_extensions \cup other.text_extensions,
           self.ignore_patterns \o
               FromKeys(SelectSeq(other.ignore_patterns,
                                  LAMBDA p : p \notin Range(self.ignore_patterns))),
           IF other.default_language # "" THEN other.default_language
           ELSE self.default_language)

\* merge that removes the repeats of the argument's list only
merge_dedupe_argument_only(self, other) ==
    Config(DictUnion(self.language_map, other.language_map),
           DictUnion(self.filename_map, other.filename_map),
           self.text_extensions \cup other.text_extensions,
           self.ignore_patterns \o FromKeys(other.ignore_patterns),
           IF other.default_language # "" THEN other.default_language
           ELSE self.default_language)

\* Config.merge
merge(self, other) ==
    Config(DictUnion(self.language_map, other.language_map),
           DictUnion(self.filename_map, other.filename_map),
           self.text_extensions \cup other.text_extensions,
           FromKeys(self.ignore_patterns \o other.ignore_patterns),
           IF other.default_language # "" THEN other.default_language
           ELSE self.default_language)

(***************************************************************************)
(* Files.  A file that does not exist is Absent.  A JSON config file is    *)
(* what open and json.load make of it: unreadable (open raises OSError),   *)
(* undecodable (not UTF-8: the read raises UnicodeDecodeError), invalid    *)
(* (json.load raises JSONDecodeError), or the parsed value.  A parsed      *)
(* value is an object (its members by key), an array (its items), a string *)
(* or a number.  The members of a language_map or filename_map object are  *)
(* strings, as are the keys: the value of an entry is never inspected.     *)
(***************************************************************************)
Absent == [absent |-> TRUE]
Unreadable == [kind |-> "unreadable"]
Undecodable == [kind |-> "undecodable"]
InvalidJson == [kind |-> "invalid"]
Json(v) == [kind |-> "json", value |-> v]
\* a text file, by its lines
Text(lines) == [kind |-> "text", lines |-> lines]

JObject(members) == [t |-> "object", members |-> members]
JArray(items) == [t |-> "array", items |-> items]
JString(s) == [t |-> "string", s |-> s]
JNumber == [t |-> "number"]

\* what a call gives back: a value, or the exception that leaves it
Returned(v) == [ok |-> TRUE, value |-> v]
Raised(e) == [ok |-> FALSE, error |-> e]

\* the top-level keys _load_config_file reads
KnownKeys ==
    {"language_map", "filename_map", "text_extensions", "ignore_patterns",
     "default_language"}

\* key in data
Contains(data, key) ==
    IF data.t = "object" THEN key \in DOMAIN data.members
    ELSE IF data.t = "array" THEN JString(key) \in Range(data.items)
    ELSE FALSE

\* key in data and isinstance(data[key], dict)
IsDictAt(data, key) ==
    data.t = "object" /\ key \in DOMAIN data.members /\ data.members[key].t = "object"

\* key in data and isinstance(data[key], list)
IsListAt(data, key) ==
    data.t = "object" /\ key \in DOMAIN data.members /\ data.members[key].t = "array"

\* {k: v for k, v in d.items() if not k.startswith('#')}
WithoutCommentKeys(d) == [k \in {x \in DOMAIN d : ~StartsWith(x, "#")} |-> d[k]]

\* every item of the list kept
AllItems(items) == [i \in 1..Len(items) |-> items[i].s]

\* [x for x in items if not x.startswith('#')], the items being strings
WithoutCommentItems(items) ==
    LET kept == SelectSeq(items, LAMBDA x : ~StartsWith(x.s, "#"))
    IN [i \in 1..Len(kept) |-> kept[i].s]

\* the exception the body of _load_config_file raises on data, "" for none:
\* "in" on a number is a TypeError, as is data[key] on an array that holds
\* the key; startswith on a list item that is no string is an AttributeError
LoadError(data) ==
    IF data.t = "number" THEN "TypeError"
    ELSE IF data.t = "array" /\ \E key \in KnownKeys : Contains(data, key) THEN "TypeError"
    ELSE IF \E key \in {"text_extensions", "ignore_patterns"} :
                /\ IsListAt(data, key)
                /\ \E x \in Range(data.members[key].items) : x.t # "string"
         THEN "AttributeError"
    ELSE ""

\* the Config the body of _load_config_file builds from data
LoadedConfig(data) ==
    Config(IF IsDictAt(data, "language_map")
           THEN WithoutCommentKeys(data.members["language_map"].members) ELSE EmptyDict,
           IF IsDictAt(data, "filename_map")
           THEN WithoutCommentKeys(data.members["filename_map"].members) ELSE EmptyDict,
           IF IsListAt(data, "text_extensions")
           THEN Range(WithoutCommentItems(data.members["text_extensions"].items)) ELSE {},
           IF IsListAt(data, "ignore_patterns")
           THEN WithoutCommentItems(data.members["ignore_patterns"].items) ELSE <<>>,
           IF /\ data.t = "object"
              /\ "default_language" \in DOMAIN data.members
              /\ data.members["default_language"].t = "string"
           THEN data.members["default_language"].s ELSE "")

\* ConfigManager._load_config_file: only JSONDecodeError and OSError are
\* caught and give Config()
_load_config_file(file) ==
    IF file = Absent \/ file = Unreadable \/ file = InvalidJson THEN Returned(EmptyConfig)
    ELSE IF file = Undecodable THEN Raised("UnicodeDecodeError")
    ELSE IF LoadError(file.value) # "" THEN Raised(LoadError(file.value))
    ELSE Returned(LoadedConfig(file.value))

\* str.strip() of a line: blanks and tabs at both ends go
RECURSIVE Strip(_)
Strip(s) ==
    IF s = "" THEN s
    ELSE IF Head(s) \in {" ", "\t"} THEN Strip(Tail(s))
    ELSE IF SubSeq(s, Len(s), Len(s)) \in {" ", "\t"} THEN Strip(SubSeq(s, 1, Len(s) - 1))
    ELSE s

\* the stripped lines of a context.ignore, comment lines and empty lines kept
legacy_lines_unfiltered(file) ==
    IF file = Absent \/ file = Unreadable THEN <<>>
    ELSE [i \in 1..Len(file.lines) |-> Strip(file.lines[i])]

\* ConfigManager._load_legacy_ignore_file on the directory's context.ignore,
\* a list of lines: every exception is caught
_load_legacy_ignore_file(file) ==
    IF file = Absent \/ file = Unreadable THEN <<>>
    ELSE LET stripped == [i \in 1..Len(file.lines) |-> Strip(file.lines[i])]
         IN SelectSeq(stripped, LAMBDA line : line # "" /\ ~StartsWith(line, "#"))

(***************************************************************************)
(* Directories are resolved absolute paths, the sequence of their          *)
(* components; the root is <<>> and is its own parent.                     *)
(***************************************************************************)
Root == <<>>
Parent(d) == IF d = Root THEN Root ELSE SubSeq(d, 1, Len(d) - 1)

\* the files a ConfigManager reads
CurrentFiles ==
    [xdg_config_home |-> xdg_config_home, home |-> home, xdg_file |-> xdg_file,
     dotconfig_file |-> dotconfig_file, dir_files |-> dir_files,
     ignore_files |-> ignore_files]

\* the global config locations in the order they are tried; ~/.ctxport.json
\* is the .ctxport.json of the home directory
config_locations(fs) ==
    (IF fs.xdg_config_home THEN <<fs.xdg_file>> ELSE <<>>)
        \o <<fs.dotconfig_file, fs.dir_files[fs.home]>>

\* the for loop of _load_global_config: the first location that exists and
\* loads without an exception, else Config()
RECURSIVE FirstLoaded(_)
FirstLoaded(locations) ==
    IF locations = <<>> THEN EmptyConfig
    ELSE IF Head(locations) # Absent /\ _load_config_file(Head(locations)).ok
         THEN _load_config_file(Head(locations)).value
    ELSE FirstLoaded(Tail(locations))

\* _load_global_config that reads the locations on every call
_load_global_config_every_call == FirstLoaded(config_locations(CurrentFiles))

\* ConfigManager._load_global_config
_load_global_config ==
    IF _global_config # None THEN _global_config
    ELSE FirstLoaded(config_locations(CurrentFiles))

\* Config.get_default_config
get_default_config ==
    IF DEFAULT_CONFIG = None THEN DefaultConfigValue ELSE DEFAULT_CONFIG

\* the while loop of get_config_for_directory: the directories from current
\* upwards that hold a .ctxport.json, nearest first; the loop ends when
\* current is its own parent
RECURSIVE config_files(_, _)
config_files(fs, current) ==
    IF current = Parent(current) THEN <<>>
    ELSE (IF fs.dir_files[current] # Absent THEN <<current>> ELSE <<>>)
             \o config_files(fs, Parent(current))

\* reversed(s)
Reversed(s) == [i \in 1..Len(s) |-> s[Len(s) + 1 - i]]

\* the order in which the collected files are merged
merge_order(files) == Reversed(files)

\* merged_config after the for loop: each loaded Config merged in turn
RECURSIVE MergeEach(_, _)
MergeEach(merged_config, configs) ==
    IF configs = <<>> THEN merged_config
    ELSE MergeEach(merge(merged_config, Head(configs)), Tail(configs))

\* lines 118 to 140 of get_config_for_directory, on a cache miss: the merged
\* Config, or the exception of the first .ctxport.json that fails to load
merged_config(fs, default_config, global_config, directory) ==
    LET files == merge_order(config_files(fs, directory))
        loads == [i \in 1..Len(files) |-> _load_config_file(fs.dir_files[files[i]])]
        failed == {i \in 1..Len(files) : ~loads[i].ok}
        layered == MergeEach(merge(default_config, global_config),
                             [i \in 1..Len(files) |-> loads[i].value])
        legacy_patterns == _load_legacy_ignore_file(fs.ignore_files[directory])
    IN IF failed # {} THEN loads[CHOOSE i \in failed : \A j \in failed : i <= j]
       ELSE IF legacy_patterns # <<>>
       THEN Returned(merge(layered,
                           Config(EmptyDict, EmptyDict, {}, legacy_patterns, "")))
       ELSE Returned(layered)

\* a lookup that never finds the directory
never_cached(directory) == FALSE

\* directory in self._cached_configs
is_cached(directory) == directory \in DOMAIN _cached_configs

\* the call before this one was clear_cache
after_clear == result # None /\ result.call = "clear_cache"

\* the outcome of a get_config_for_directory call: the return statement it
\* left by (the cached Config, or the merged one) or the exception, how many
\* file changes preceded the call, and whether it is the first call since a
\* clear_cache, with the cache entries that clear_cache dropped
Outcome(directory, via, r) ==
    [call |-> "get_config_for_directory", directory |-> directory, via |-> via,
     after_changes |-> fs_changes,
     after_clear |-> after_clear,
     dropped |-> IF after_clear THEN result.dropped ELSE EmptyDict,
     raised |-> ~r.ok, error |-> IF r.ok THEN "" ELSE r.error,
     config |-> IF r.ok THEN r.value ELSE None]

\* ConfigManager.get_config_for_directory
get_config_for_directory(directory) ==
    IF is_cached(directory)
    THEN /\ result' = Outcome(directory, "cache", Returned(_cached_configs[directory]))
         /\ UNCHANGED <<DEFAULT_CONFIG, _global_config, _cached_configs>>
    ELSE LET r == merged_config(CurrentFiles, get_default_config, _load_global_config,
                                directory)
         IN /\ DEFAULT_CONFIG' = get_default_config
            /\ _global_config' = _load_global_config
            /\ result' = Outcome(directory, "merge", r)
            /\ _cached_configs' =
                   IF r.ok
                   THEN [d \in (DOMAIN _cached_configs) \cup {directory} |->
                            IF d = directory THEN r.value ELSE _cached_configs[d]]
                   ELSE _cached_configs

\* clear_cache that leaves the memoized global config in place
clear_cache_of_directories ==
    /\ _cached_configs' = EmptyDict
    /\ result' = [call |-> "clear_cache", dropped |-> _cached_configs]
    /\ UNCHANGED <<DEFAULT_CONFIG, _global_config>>

\* ConfigManager.clear_cache
clear_cache ==
    /\ _cached_configs' = EmptyDict
    /\ _global_config' = None
    /\ result' = [call |-> "clear_cache", dropped |-> _cached_configs]
    /\ UNCHANGED DEFAULT_CONFIG

(***************************************************************************)
(* The directories and config files of the model.                          *)
(***************************************************************************)
\* a chain of nested directories below the root, and a home directory
\* outside it
Dirs == {Root, <<"p">>, <<"p", "q">>, <<"p", "q", "r">>}
HomeOutside == <<"h">>
AllDirs == Dirs \cup {HomeOutside}

\* the directories get_config_for_directory is called on
ResolveDirs == {<<"p">>, <<"p", "q", "r">>}

XdgDoc ==
    Json(JObject(
        "language_map" :> JObject(".py" :> "py3" @@ ".xdg" :> "xdg-lang") @@
        "ignore_patterns" :> JArray(<<JString("xdg-cache/")>>) @@
        "default_language" :> JString("text")))

DotConfigDoc ==
    Json(JObject(
        "language_map" :> JObject(".py" :> "py3-dotconfig") @@
        "filename_map" :> JObject("justfile" :> "just") @@
        "text_extensions" :> JArray(<<JString(".just")>>)))

HomeDoc ==
    Json(JObject(
        "language_map" :> JObject(".py" :> "py3-home") @@
        "ignore_patterns" :> JArray(<<JString("home-cache/")>>)))

RootDoc ==
    Json(JObject(
        "language_map" :> JObject(".py" :> "py3-root" @@ ".root" :> "root-lang") @@
        "ignore_patterns" :> JArray(<<JString("root-only/")>>) @@
        "text_extensions" :> JArray(<<JString(".root")>>) @@
        "default_language" :> JString("root-default")))

UpperDoc ==
    Json(JObject(
        "language_map" :> JObject(".py" :> "py3-custom" @@ "# languages" :> "...") @@
        "filename_map" :> JObject("dockerfile" :> "docker-p" @@ "# names" :> "...") @@
        "text_extensions" :> JArray(<<JString(".p"), JString("# extensions")>>) @@
        "default_language" :> JString("p-lang")))

MiddleDoc ==
    Json(JObject(
        "language_map" :> JObject(".md" :> "md-q") @@
        "ignore_patterns" :> JArray(<<JString("*.log"), JString(".git/")>>) @@
        "default_language" :> JString("")))

LocalDoc ==
    Json(JObject(
        "language_map" :> JObject(".py" :> "local-py") @@
        "ignore_patterns" :>
            JArray(<<JString("# local"), JString("local/"), JString("*.log")>>) @@
        "theme" :> JString("dark")))

\* the well-formed .ctxport.json a directory may hold
DirDoc(d) ==
    CASE d = Root -> RootDoc
      [] d = <<"p">> -> UpperDoc
      [] d = <<"p", "q">> -> MiddleDoc
      [] d = <<"p", "q", "r">> -> LocalDoc
      [] OTHER -> HomeDoc

\* config files that are not a JSON object of well-typed entries
MalformedFiles ==
    {Unreadable, Undecodable, InvalidJson,
     Json(JNumber),
     Json(JArray(<<>>)),
     Json(JArray(<<JString("ignore_patterns")>>)),
     Json(JObject("ignore_patterns" :> JArray(<<JString("tmp/"), JNumber>>))),
     Json(JObject("language_map" :> JArray(<<JString(".py")>>)))}

\* the lines of a context.ignore
LegacyLines ==
    Text(<<"# legacy patterns", "", "  legacy/ ", "*.log", "  # not a pattern", "legacy/">>)

NoDirFiles == [d \in AllDirs |-> Absent]

\* file systems whose config files are all well-formed
InitLayeredFiles ==
    /\ home \in {HomeOutside, <<"p">>}
    /\ xdg_config_home \in BOOLEAN
    /\ xdg_file \in (IF xdg_config_home THEN {Absent, XdgDoc} ELSE {Absent})
    /\ dotconfig_file \in {Absent, DotConfigDoc}
    /\ dir_files \in {[d \in AllDirs |-> IF d \in present THEN DirDoc(d) ELSE Absent] :
                         present \in SUBSET AllDirs}
    /\ ignore_files \in {[d \in AllDirs |-> IF d \in present THEN LegacyLines ELSE Absent] :
                            present \in SUBSET ResolveDirs}

\* file systems with one malformed config file: at one of the global
\* locations, or in a directory of the chain
InitMalformedFiles ==
    /\ home = HomeOutside
    /\ xdg_config_home = TRUE
    /\ ignore_files = NoDirFiles
    /\ \E bad \in MalformedFiles :
          \/ /\ xdg_file = bad
             /\ dotconfig_file \in {Absent, DotConfigDoc}
             /\ \E homefile \in {Absent, HomeDoc}, present \in {{}, Dirs} :
                   dir_files = [d \in AllDirs |->
                                   IF d = HomeOutside THEN homefile
                                   ELSE IF d \in present THEN DirDoc(d) ELSE Absent]
          \/ /\ xdg_file \in {Absent, XdgDoc}
             /\ dotconfig_file = bad
             /\ \E homefile \in {Absent, HomeDoc}, present \in {{}, Dirs} :
                   dir_files = [d \in AllDirs |->
                                   IF d = HomeOutside THEN homefile
                                   ELSE IF d \in present THEN DirDoc(d) ELSE Absent]
          \/ /\ xdg_file \in {Absent, XdgDoc}
             /\ dotconfig_file \in {Absent, DotConfigDoc}
             /\ \E present \in {{}, Dirs} :
                   dir_files = [d \in AllDirs |->
                                   IF d = HomeOutside THEN bad
                                   ELSE IF d \in present THEN DirDoc(d) ELSE Absent]
          \/ /\ xdg_file = XdgDoc
             /\ dotconfig_file = Absent
             /\ \E present \in SUBSET Dirs :
                   \E at \in present :
                       dir_files = [d \in AllDirs |->
                                       IF d = at THEN bad
                                       ELSE IF d \in present THEN DirDoc(d) ELSE Absent]

\* a ConfigManager after __init__, in a fresh process
InitManager ==
    /\ DEFAULT_CONFIG = None
    /\ _global_config = None
    /\ _cached_configs = EmptyDict
    /\ result = None

\* no Config object followed through a merge
IdleObjects == heap = <<>> /\ refA = None /\ refB = None /\ refMerged = None

IdleThird == cfgC = EmptyConfig /\ regrouped = None

IdleMerge ==
    cfgA = EmptyConfig /\ cfgB = EmptyConfig /\ merged = None /\ IdleThird /\ IdleObjects

\* a CodeExporter after __init__, with a formatter that has received no call,
\* over a directory that holds no file
InitExporter ==
    /\ exporter = [directory |-> None, config |-> None]
    /\ formatter = <<>>
    /\ exported = None

\* no FileFilter or FileHandler constructed apart from the exporter's
NotCalled ==
    [should_include_file |-> None, get_language |-> None, read_file |-> None,
     first_included |-> EmptyDict, first_language |-> EmptyDict]

IdleClassify == file_filter = None /\ file_handler = None /\ classified = NotCalled

\* no run of main
IdleMain == args = None /\ env = None /\ run = None

IdleExport == tree = EmptyDict /\ InitExporter /\ IdleClassify /\ IdleMain

(***************************************************************************)
(* SpecResolve: a ConfigManager over a file system that does not change.   *)
(***************************************************************************)
InitResolve ==
    /\ IdleMerge
    /\ IdleExport
    /\ InitManager
    /\ fs_changes = 0
    /\ (InitLayeredFiles \/ InitMalformedFiles)

Resolve ==
    /\ \E directory \in ResolveDirs : get_config_for_directory(directory)
    /\ UNCHANGED <<mergeVars, fsVars, exportVars, classifyVars, mainVars>>

ClearCache ==
    /\ clear_cache
    /\ UNCHANGED <<mergeVars, fsVars, exportVars, classifyVars, mainVars>>

NextResolve == Resolve \/ ClearCache

SpecResolve == InitResolve /\ [][NextResolve]_vars

(***************************************************************************)
(* Spec: a ConfigManager while config files are created, rewritten and     *)
(* removed.                                                                *)
(***************************************************************************)
InitNoFiles ==
    /\ home = HomeOutside
    /\ xdg_config_home = TRUE
    /\ xdg_file = Absent
    /\ dotconfig_file = Absent
    /\ dir_files = NoDirFiles
    /\ ignore_files = NoDirFiles
    /\ fs_changes = 0

Init == IdleMerge /\ IdleExport /\ InitManager /\ InitNoFiles

\* $XDG_CONFIG_HOME/ctxport/ctxport.json is written or removed
ChangeXdgFile ==
    /\ fs_changes < MaxFsChanges
    /\ xdg_file' \in {Absent, XdgDoc, InvalidJson} \ {xdg_file}
    /\ fs_changes' = fs_changes + 1
    /\ UNCHANGED <<mergeVars, managerVars, exportVars, classifyVars, mainVars,
                   xdg_config_home, home,
                   dotconfig_file, dir_files, ignore_files>>

\* ~/.config/ctxport/ctxport.json is written or removed
ChangeDotconfigFile ==
    /\ fs_changes < MaxFsChanges
    /\ dotconfig_file' \in {Absent, DotConfigDoc} \ {dotconfig_file}
    /\ fs_changes' = fs_changes + 1
    /\ UNCHANGED <<mergeVars, managerVars, exportVars, classifyVars, mainVars,
                   xdg_config_home, home,
                   xdg_file, dir_files, ignore_files>>

\* a directory's .ctxport.json is written or removed
ChangeDirFile ==
    /\ fs_changes < MaxFsChanges
    /\ \E d \in AllDirs :
          \E file \in {Absent, DirDoc(d), Json(JNumber)} \ {dir_files[d]} :
              dir_files' = [dir_files EXCEPT ![d] = file]
    /\ fs_changes' = fs_changes + 1
    /\ UNCHANGED <<mergeVars, managerVars, exportVars, classifyVars, mainVars,
                   xdg_config_home, home,
                   xdg_file, dotconfig_file, ignore_files>>

\* a directory's context.ignore is written or removed
ChangeIgnoreFile ==
    /\ fs_changes < MaxFsChanges
    /\ \E d \in ResolveDirs :
          \E file \in {Absent, LegacyLines} \ {ignore_files[d]} :
              ignore_files' = [ignore_files EXCEPT ![d] = file]
    /\ fs_changes' = fs_changes + 1
    /\ UNCHANGED <<mergeVars, managerVars, exportVars, classifyVars, mainVars,
                   xdg_config_home, home,
                   xdg_file, dotconfig_file, dir_files>>

Next ==
    \/ Resolve
    \/ ClearCache
    \/ ChangeXdgFile
    \/ ChangeDotconfigFile
    \/ ChangeDirFile
    \/ ChangeIgnoreFile

Spec == Init /\ [][Next]_vars

\* the latest call was get_config_for_directory and returned a Config
Resolved == result # None /\ result.call = "get_config_for_directory" /\ ~result.raised

(***************************************************************************)
(* C3: resolution applies the layers built-in default, global config, and  *)
(* the .ctxport.json of every directory from the root-most ancestor down   *)
(* to the target; a key of several layers has the value of the highest     *)
(* layer that defines it (.py -> local-py in the spec's scenario), and a   *)
(* key only a lower layer defines stays present.                           *)
(***************************************************************************)
\* the root, ..., the parent of d, d
RECURSIVE FromRoot(_)
FromRoot(d) == IF d = Root THEN <<Root>> ELSE Append(FromRoot(Parent(d)), d)

\* the language_map a .ctxport.json contributes
LayerMap(file) ==
    IF file # Absent /\ _load_config_file(file).ok
    THEN _load_config_file(file).value.language_map ELSE EmptyDict

\* the language_map of every layer that applies to d, lowest precedence first
LanguageLayers(d) ==
    <<DefaultLanguageMap, _global_config.language_map>>
        \o [i \in 1..Len(FromRoot(d)) |-> LayerMap(dir_files[FromRoot(d)[i]])]

C3_HighestLayerWins ==
    Resolved =>
        LET layers == LanguageLayers(result.directory)
            map == result.config.language_map
        IN \A i \in 1..Len(layers) : \A k \in DOMAIN layers[i] :
              (\A j \in (i + 1)..Len(layers) : k \notin DOMAIN layers[j])
                  => (k \in DOMAIN map /\ map[k] = layers[i][k])

(***************************************************************************)
(* C4: resolving a directory never fails because of a config file's        *)
(* content: with a malformed global or per-directory config file (invalid  *)
(* JSON, a top-level value that is no object, a known key with elements of *)
(* the wrong type, an unreadable file) it returns the Config it would      *)
(* return if that file were an empty config, every other source merged.    *)
(***************************************************************************)
EmptyObjectFile == Json(JObject(EmptyDict))

IsMalformed(file) ==
    /\ file # Absent
    /\ \/ file \in {Unreadable, Undecodable, InvalidJson}
       \/ file.value.t # "object"
       \/ \E key \in {"language_map", "filename_map"} :
             key \in DOMAIN file.value.members /\ file.value.members[key].t # "object"
       \/ \E key \in {"text_extensions", "ignore_patterns"} :
             /\ key \in DOMAIN file.value.members
             /\ \/ file.value.members[key].t # "array"
                \/ \E x \in Range(file.value.members[key].items) : x.t # "string"

AsEmpty(file) == IF IsMalformed(file) THEN EmptyObjectFile ELSE file

\* the files, every malformed config file replaced by an empty config
MalformedAsEmpty ==
    [CurrentFiles EXCEPT !.xdg_file = AsEmpty(xdg_file),
                         !.dotconfig_file = AsEmpty(dotconfig_file),
                         !.dir_files = [d \in AllDirs |-> AsEmpty(dir_files[d])]]

C4_MalformedFileCountsAsEmpty ==
    (result # None /\ result.call = "get_config_for_directory") =>
        /\ ~result.raised
        /\ Returned(result.config) =
               merged_config(MalformedAsEmpty, DefaultConfigValue,
                             FirstLoaded(config_locations(MalformedAsEmpty)),
                             result.directory)

(***************************************************************************)
(* C5: once a directory has been resolved, every later resolve of it       *)
(* returns the Config of the first call, whatever happened to the global,  *)
(* per-directory and legacy files since, until clear_cache is called: a    *)
(* cache entry is written by the call that misses, is never rewritten, and *)
(* is what every later call returns.                                       *)
(***************************************************************************)
C5_CachedConfigIsKept ==
    [][\A d \in ResolveDirs :
          /\ (d \in DOMAIN _cached_configs /\ d \in DOMAIN _cached_configs')
                => _cached_configs'[d] = _cached_configs[d]
          /\ (get_config_for_directory(d) /\ d \in DOMAIN _cached_configs)
                => (~result'.raised /\ result'.config = _cached_configs[d])
          /\ (get_config_for_directory(d) /\ d \notin DOMAIN _cached_configs
                  /\ ~result'.raised)
                => (d \in DOMAIN _cached_configs'
                       /\ _cached_configs'[d] = result'.config)]_vars

\* a resolve answered from the cache when the files, unchanged since that
\* call, had changed so that a fresh resolution would give another Config
C5_Witness ==
    /\ Resolved
    /\ result.via = "cache"
    /\ result.after_changes = fs_changes
    /\ result.directory \in DOMAIN _cached_configs
    /\ merged_config(CurrentFiles, DefaultConfigValue,
                     FirstLoaded(config_locations(CurrentFiles)), result.directory)
           # Returned(result.config)

(***************************************************************************)
(* Config.merge on two Configs: the inputs.                                *)
(***************************************************************************)
MergeKeys == {".a", ".b"}
MergeLangs == {"lang-1", "lang-2"}
MergeNames == {"file1"}
MergePatterns == {"x", "y", "z"}

\* every dict with keys among K and values among V
Dicts(K, V) == UNION {[D -> V] : D \in SUBSET K}

\* every list over S of at most n entries
Lists(S, n) == UNION {[1..k -> S] : k \in 0..n}

\* Configs that differ in their maps, extension set and default language
MapConfigs ==
    {Config(lm, fm, te, <<>>, dl) :
        lm \in Dicts(MergeKeys, MergeLangs), fm \in Dicts(MergeNames, MergeLangs),
        te \in SUBSET MergeKeys, dl \in {"", "text"}}

\* Configs that differ in their ignore_patterns (a value may repeat in one list)
PatternConfigs ==
    {Config(EmptyDict, EmptyDict, {}, ip, "") : ip \in Lists(MergePatterns, MaxPatterns)}

MergeConfigs == MapConfigs \cup PatternConfigs

IdleManager == InitManager /\ InitNoFiles /\ IdleExport

InitMerge ==
    /\ cfgA \in MergeConfigs
    /\ cfgB \in MergeConfigs
    /\ merged = None
    /\ IdleThird
    /\ IdleObjects
    /\ IdleManager

\* merged = cfgA.merge(cfgB)
Merge ==
    /\ merged = None
    /\ merged' = merge(cfgA, cfgB)
    /\ UNCHANGED <<cfgA, cfgB, cfgC, regrouped, heap, refA, refB, refMerged, fsVars, managerVars, exportVars,
                   classifyVars, mainVars>>

NextMerge == Merge

SpecMerge == InitMerge /\ [][NextMerge]_vars

(***************************************************************************)
(* C1: A.merge(B) has language_map and filename_map whose key set is the   *)
(* union of both key sets, where a key of B has B's value and a key only   *)
(* A has keeps A's value, and text_extensions is the union of both sets.   *)
(***************************************************************************)
MapMergedBWins(a, b, m) ==
    /\ DOMAIN m = (DOMAIN a) \cup (DOMAIN b)
    /\ \A k \in DOMAIN b : m[k] = b[k]
    /\ \A k \in (DOMAIN a) \ (DOMAIN b) : m[k] = a[k]

C1_MergeMapsAndSets ==
    merged # None =>
        /\ MapMergedBWins(cfgA.language_map, cfgB.language_map, merged.language_map)
        /\ MapMergedBWins(cfgA.filename_map, cfgB.filename_map, merged.filename_map)
        /\ \A e \in MergeKeys :
              e \in merged.text_extensions
                  <=> (e \in cfgA.text_extensions \/ e \in cfgB.text_extensions)
        /\ merged.text_extensions \subseteq MergeKeys

\* a merge of two Configs that share a key with different values, and hold
\* a key and an extension each that the other lacks
C1_Witness ==
    /\ merged # None
    /\ \E k \in DOMAIN cfgA.language_map \cap DOMAIN cfgB.language_map :
          cfgA.language_map[k] # cfgB.language_map[k]
    /\ (DOMAIN cfgA.language_map) \ (DOMAIN cfgB.language_map) # {}
    /\ cfgA.text_extensions \ cfgB.text_extensions # {}
    /\ cfgB.text_extensions \ cfgA.text_extensions # {}

(***************************************************************************)
(* C2: the ignore_patterns of A.merge(B) hold exactly the values of A's    *)
(* and B's lists, hold no value twice (also when A or B alone repeats a    *)
(* value), and order the values by their first occurrence in A's list      *)
(* followed by B's; ["x","y"] merged with ["y","z"] gives ["x","y","z"].   *)
(***************************************************************************)
FirstIndex(s, v) == CHOOSE i \in 1..Len(s) : s[i] = v /\ \A j \in 1..(i - 1) : s[j] # v

C2_MergeIgnorePatterns ==
    merged # None =>
        LET both == cfgA.ignore_patterns \o cfgB.ignore_patterns
            out == merged.ignore_patterns
        IN /\ Range(out) = Range(both)
           /\ \A i, j \in 1..Len(out) : i # j => out[i] # out[j]
           /\ \A i, j \in 1..Len(out) :
                 i < j => FirstIndex(both, out[i]) < FirstIndex(both, out[j])
           /\ (cfgA.ignore_patterns = <<"x", "y">> /\ cfgB.ignore_patterns = <<"y", "z">>)
                 => out = <<"x", "y", "z">>

\* the spec's example, merged
C2_Witness ==
    /\ merged # None
    /\ cfgA.ignore_patterns = <<"x", "y">>
    /\ cfgB.ignore_patterns = <<"y", "z">>

(***************************************************************************)
(* Python str, bytes and pathlib helpers of the export side.               *)
(***************************************************************************)
\* the printable ASCII characters in code point order: ' ' (32) to '_' (95),
\* and 'a' (97) to '~' (126)
AsciiLow == " !\"#$%&'()*+,-./0123456789:;<=>?@ABCDEFGHIJKLMNOPQRSTUVWXYZ[\\]^_"
AsciiHigh == "abcdefghijklmnopqrstuvwxyz{|}~"

\* chr(n) and ord(c) on these characters
Chr(n) ==
    IF n < 96 THEN SubSeq(AsciiLow, n - 31, n - 31) ELSE SubSeq(AsciiHigh, n - 96, n - 96)

Ord(c) ==
    IF \E i \in 1..Len(AsciiLow) : SubSeq(AsciiLow, i, i) = c
    THEN 31 + (CHOOSE i \in 1..Len(AsciiLow) : SubSeq(AsciiLow, i, i) = c)
    ELSE 96 + (CHOOSE i \in 1..Len(AsciiHigh) : SubSeq(AsciiHigh, i, i) = c)

\* s[i:] and s[:i] with a 0-based index
From(s, i) == SubSeq(s, i + 1, Len(s))
Upto(s, i) == SubSeq(s, 1, IF i < Len(s) THEN i ELSE Len(s))

\* s.lower()
RECURSIVE lower(_)
lower(s) ==
    IF s = "" THEN ""
    ELSE LET c == Head(s)
             o == Ord(c)
         IN (IF o >= 65 /\ o <= 90 THEN Chr(o + 32) ELSE c) \o lower(Tail(s))

\* s.find(c, start) and s.rfind(c), 0-based, -1 when c does not occur
Find(s, c, start) ==
    LET at == {i \in start..(Len(s) - 1) : SubSeq(s, i + 1, i + 1) = c}
    IN IF at = {} THEN -1 ELSE CHOOSE i \in at : \A j \in at : i <= j

RFind(s, c) ==
    LET at == {i \in 0..(Len(s) - 1) : SubSeq(s, i + 1, i + 1) = c}
    IN IF at = {} THEN -1 ELSE CHOOSE i \in at : \A j \in at : i >= j

\* a < b on two str values: by code point, a proper prefix first
RECURSIVE StrLess(_, _)
StrLess(a, b) ==
    IF b = "" THEN FALSE
    ELSE IF a = "" THEN TRUE
    ELSE IF Head(a) = Head(b) THEN StrLess(Tail(a), Tail(b))
    ELSE Ord(Head(a)) < Ord(Head(b))

\* a path is the sequence of its parts; Path.name and Path.suffix
name(path) == path[Len(path)]

suffix(path) ==
    LET n == name(path)
        i == RFind(n, ".")
    IN IF 0 < i /\ i < Len(n) - 1 THEN From(n, i) ELSE ""

\* str(path)
RECURSIVE PathStr(_)
PathStr(path) ==
    IF Len(path) = 1 THEN path[1]
    ELSE PathStr(SubSeq(path, 1, Len(path) - 1)) \o "/" \o path[Len(path)]

\* p < q on two paths: their parts compared as lists of str
RECURSIVE PathLess(_, _)
PathLess(p, q) ==
    IF q = <<>> THEN FALSE
    ELSE IF p = <<>> THEN TRUE
    ELSE IF Head(p) = Head(q) THEN PathLess(Tail(p), Tail(q))
    ELSE StrLess(Head(p), Head(q))

\* the paths sorted by their str
RECURSIVE sorted_by_str(_)
sorted_by_str(paths) ==
    IF paths = {} THEN <<>>
    ELSE LET first == CHOOSE p \in paths :
                          \A q \in paths \ {p} : StrLess(PathStr(p), PathStr(q))
         IN <<first>> \o sorted_by_str(paths \ {first})

\* sorted(paths)
RECURSIVE sorted(_)
sorted(paths) ==
    IF paths = {} THEN <<>>
    ELSE LET first == CHOOSE p \in paths : \A q \in paths \ {p} : PathLess(p, q)
         IN <<first>> \o sorted(paths \ {first})

(***************************************************************************)
(* fnmatch.fnmatch on POSIX (no case folding): '*' matches any run of      *)
(* characters, '?' one character, '[seq]' one character of seq, '[!seq]'   *)
(* one character not in seq, and a '[' that no ']' closes is literal.      *)
(***************************************************************************)
\* where the class opened by a '[' ends: the index in rest (the pattern after
\* the '[') of the closing ']', a leading '!' and a ']' right after it being
\* part of the class; -1 when the class is not closed
ClassEnd(rest) ==
    LET j1 == IF 0 < Len(rest) /\ SubSeq(rest, 1, 1) = "!" THEN 1 ELSE 0
        j2 == IF j1 < Len(rest) /\ SubSeq(rest, j1 + 1, j1 + 1) = "]" THEN j1 + 1 ELSE j1
    IN Find(rest, "]", j2)

\* c is one of the characters and ranges lo-hi that body lists
RECURSIVE ClassHas(_, _)
ClassHas(c, body) ==
    IF body = "" THEN FALSE
    ELSE IF Len(body) >= 3 /\ SubSeq(body, 2, 2) = "-"
    THEN \/ (Ord(SubSeq(body, 1, 1)) <= Ord(c) /\ Ord(c) <= Ord(SubSeq(body, 3, 3)))
         \/ ClassHas(c, From(body, 3))
    ELSE c = Head(body) \/ ClassHas(c, Tail(body))

InClass(c, stuff) ==
    IF stuff = "!" THEN TRUE
    ELSE IF Head(stuff) = "!" THEN ~ClassHas(c, Tail(stuff))
    ELSE ClassHas(c, stuff)

RECURSIVE fnmatch(_, _)
fnmatch(s, pat) ==
    IF pat = "" THEN s = ""
    ELSE LET c == Head(pat)
             rest == Tail(pat)
         IN IF c = "*" THEN \E k \in 0..Len(s) : fnmatch(From(s, k), rest)
            ELSE IF c = "?" THEN s # "" /\ fnmatch(Tail(s), rest)
            ELSE IF c = "[" /\ ClassEnd(rest) >= 0
            THEN /\ s # ""
                 /\ InClass(Head(s), Upto(rest, ClassEnd(rest)))
                 /\ fnmatch(Tail(s), From(rest, ClassEnd(rest) + 1))
            ELSE s # "" /\ Head(s) = c /\ fnmatch(Tail(s), rest)

(***************************************************************************)
(* Files: a file is its bytes and whether the process may open it; text is *)
(* the sequence of its characters' code points.                            *)
(***************************************************************************)
File(bytes, readable) == [bytes |-> bytes, readable |-> readable]

\* bytes.decode('utf-8'): the code points, or UnicodeDecodeError on a byte
\* that starts no sequence, a missing or wrong continuation byte, an
\* overlong form, a surrogate or a code point above U+10FFFF
Utf8Width(b) ==
    IF b < 128 THEN 1
    ELSE IF b >= 194 /\ b <= 223 THEN 2
    ELSE IF b >= 224 /\ b <= 239 THEN 3
    ELSE IF b >= 240 /\ b <= 244 THEN 4
    ELSE 0

Utf8Second(lead, b) ==
    CASE lead = 224 -> b >= 160 /\ b <= 191
      [] lead = 237 -> b >= 128 /\ b <= 159
      [] lead = 240 -> b >= 144 /\ b <= 191
      [] lead = 244 -> b >= 128 /\ b <= 143
      [] OTHER -> b >= 128 /\ b <= 191

Utf8CodePoint(b, w) ==
    CASE w = 1 -> b[1]
      [] w = 2 -> (b[1] - 192) * 64 + (b[2] - 128)
      [] w = 3 -> (b[1] - 224) * 4096 + (b[2] - 128) * 64 + (b[3] - 128)
      [] w = 4 -> (b[1] - 240) * 262144 + (b[2] - 128) * 4096 + (b[3] - 128) * 64
                      + (b[4] - 128)

RECURSIVE decode_utf8(_)
decode_utf8(b) ==
    IF b = <<>> THEN Returned(<<>>)
    ELSE LET w == Utf8Width(b[1])
             wellFormed ==
                 /\ w > 0
                 /\ Len(b) >= w
                 /\ w > 1 => Utf8Second(b[1], b[2])
                 /\ \A i \in 3..w : b[i] >= 128 /\ b[i] <= 191
         IN IF ~wellFormed THEN Raised("UnicodeDecodeError")
            ELSE LET more == decode_utf8(SubSeq(b, w + 1, Len(b)))
                 IN IF more.ok THEN Returned(<<Utf8CodePoint(b, w)>> \o more.value)
                    ELSE more

\* bytes.decode('latin-1'): every byte is the code point of its value
decode_latin1(b) == Returned(b)

\* the newline translation of a file opened in text mode: '\r\n' and '\r'
\* are read as '\n'
RECURSIVE UniversalNewlines(_)
UniversalNewlines(text) ==
    IF text = <<>> THEN <<>>
    ELSE IF text[1] = 13
    THEN <<10>> \o UniversalNewlines(
                       SubSeq(text, IF Len(text) > 1 /\ text[2] = 10 THEN 3 ELSE 2,
                              Len(text)))
    ELSE <<text[1]>> \o UniversalNewlines(Tail(text))

\* with open(file_path, 'r', encoding=...) as f: f.read(size), and f.read()
\* for size = -1.  The decoder works on whole chunks of the file, larger
\* than the sizes read here, so a byte that does not decode raises wherever
\* it stands in a file of the model.
open_read(file, encoding, size) ==
    IF ~file.readable THEN Raised("PermissionError")
    ELSE LET decoded == IF encoding = "utf-8" THEN decode_utf8(file.bytes)
                        ELSE decode_latin1(file.bytes)
         IN IF ~decoded.ok THEN decoded
            ELSE LET text == UniversalNewlines(decoded.value)
                 IN Returned(IF size < 0 THEN text ELSE Upto(text, size))

\* mimetypes.guess_type(str(file_path))[0] for the extensions of the model:
\* the type of the extension, looked up as written and then in lowercase;
\* None is the empty string here
types_map ==
    ".txt" :> "text/plain" @@
    ".py" :> "text/x-python" @@
    ".md" :> "text/markdown" @@
    ".html" :> "text/html" @@
    ".css" :> "text/css" @@
    ".csv" :> "text/csv" @@
    ".json" :> "application/json" @@
    ".bin" :> "application/octet-stream" @@
    ".pdf" :> "application/pdf" @@
    ".png" :> "image/png"

guess_type(path) ==
    LET ext == suffix(path)
    IN IF ext \in DOMAIN types_map THEN types_map[ext]
       ELSE IF lower(ext) \in DOMAIN types_map THEN types_map[lower(ext)]
       ELSE ""

(***************************************************************************)
(* mime_utils.is_text_file, FileFilter and FileHandler.  A FileFilter and  *)
(* a FileHandler hold the Config cfg; files are the files below their base *)
(* directory, and a path is relative to it.                                *)
(***************************************************************************)
\* is_text_file taking a file it cannot open for a text file
is_text_file_unless_undecodable(path, file) ==
    IF StartsWith(guess_type(path), "text/") THEN TRUE
    ELSE LET as_utf8 == open_read(file, "utf-8", 4096)
         IN IF as_utf8.ok THEN TRUE
            ELSE IF as_utf8.error = "UnicodeDecodeError"
            THEN open_read(file, "latin-1", 4096).ok
            ELSE TRUE

\* mime_utils.is_text_file
is_text_file(path, file) ==
    IF StartsWith(guess_type(path), "text/") THEN TRUE
    ELSE LET as_utf8 == open_read(file, "utf-8", 4096)
         IN IF as_utf8.ok THEN TRUE
            ELSE IF as_utf8.error = "UnicodeDecodeError"
            THEN open_read(file, "latin-1", 4096).ok
            ELSE FALSE

\* FileFilter._always_ignore_files
_always_ignore_files == {".ctxport.json", "ctxport.json", "context.ignore"}

\* a directory pattern compared with the first component of the path only
top_level_pattern_ignores(pattern, relative_path) ==
    \/ /\ EndsWith(pattern, "/")
       /\ relative_path[1] = Upto(pattern, Len(pattern) - 1)
    \/ fnmatch(PathStr(relative_path), pattern)
    \/ \E i \in 1..Len(relative_path) : fnmatch(relative_path[i], pattern)

\* a pattern matched as a glob against the whole path and the file's name,
\* not against the directory names
file_name_pattern_ignores(pattern, relative_path) ==
    \/ /\ EndsWith(pattern, "/")
       /\ \E i \in 1..Len(relative_path) :
             relative_path[i] = Upto(pattern, Len(pattern) - 1)
    \/ fnmatch(PathStr(relative_path), pattern)
    \/ fnmatch(relative_path[Len(relative_path)], pattern)

\* one round of the loop over config.ignore_patterns in should_ignore:
\* whether the pattern makes it return True
pattern_ignores(pattern, relative_path) ==
    \/ /\ EndsWith(pattern, "/")
       /\ \E i \in 1..Len(relative_path) :
             relative_path[i] = Upto(pattern, Len(pattern) - 1)
    \/ fnmatch(PathStr(relative_path), pattern)
    \/ \E i \in 1..Len(relative_path) : fnmatch(relative_path[i], pattern)

\* should_ignore without the check of the file's name against the tool's own
\* config file names
should_ignore_by_patterns(cfg, files, path) ==
    IF path \notin DOMAIN files THEN TRUE
    ELSE \E i \in 1..Len(cfg.ignore_patterns) :
             pattern_ignores(cfg.ignore_patterns[i], path)

\* FileFilter.should_ignore
should_ignore(cfg, files, path) ==
    IF path \notin DOMAIN files THEN TRUE
    ELSE IF name(path) \in _always_ignore_files THEN TRUE
    ELSE \E i \in 1..Len(cfg.ignore_patterns) :
             pattern_ignores(cfg.ignore_patterns[i], path)

\* is_text_file without the lookup of the file's name in the filename map
is_text_file_by_extension_or_content(cfg, files, path) ==
    IF lower(suffix(path)) \in cfg.text_extensions THEN TRUE
    ELSE is_text_file(path, files[path])

\* FileFilter.is_text_file
FileFilter_is_text_file(cfg, files, path) ==
    IF lower(suffix(path)) \in cfg.text_extensions THEN TRUE
    ELSE IF lower(name(path)) \in DOMAIN cfg.filename_map THEN TRUE
    ELSE is_text_file(path, files[path])

\* FileFilter.should_include_file
should_include_file(cfg, files, path) ==
    IF should_ignore(cfg, files, path) THEN FALSE
    ELSE IF ~FileFilter_is_text_file(cfg, files, path) THEN FALSE
    ELSE TRUE

\* get_language with the extension mapping looked up before the filename
\* mapping
get_language_extension_first(cfg, path) ==
    LET filename == lower(name(path))
        ext == lower(suffix(path))
    IN IF ext \in DOMAIN cfg.language_map THEN cfg.language_map[ext]
       ELSE IF filename \in DOMAIN cfg.filename_map THEN cfg.filename_map[filename]
       ELSE cfg.default_language

\* get_language giving back the language it found on its latest call
get_language_of_latest_call(cfg, path) ==
    IF classified.get_language # None THEN classified.get_language.language
    ELSE get_language_extension_first(cfg, path)

\* FileHandler.get_language
get_language(cfg, path) ==
    LET filename == lower(name(path))
        ext == lower(suffix(path))
    IN IF filename \in DOMAIN cfg.filename_map THEN cfg.filename_map[filename]
       ELSE IF ext \in DOMAIN cfg.language_map THEN cfg.language_map[ext]
       ELSE cfg.default_language

\* the content read_file returns: the text of the file, or the line that
\* reports why it could not be read
Content(text) == [text |-> text]
ErrorContent(e) == [error_reading_file |-> e]

\* FileHandler.read_file
read_file(cfg, files, path) ==
    LET language == get_language(cfg, path)
        as_utf8 == open_read(files[path], "utf-8", -1)
        as_latin1 == open_read(files[path], "latin-1", -1)
    IN IF as_utf8.ok THEN <<Content(as_utf8.value), language>>
       ELSE IF as_utf8.error = "UnicodeDecodeError"
       THEN (IF as_latin1.ok THEN <<Content(as_latin1.value), language>>
             ELSE <<ErrorContent(as_latin1.error), language>>)
       ELSE <<ErrorContent(as_utf8.error), language>>

(***************************************************************************)
(* CodeExporter (exporter.py) and the calls its formatter receives.        *)
(***************************************************************************)
begin_document(project_name) == [call |-> "begin_document", project_name |-> project_name]
add_file(path, content, language) ==
    [call |-> "add_file", path |-> path, content |-> content, language |-> language]
add_error(message) == [call |-> "add_error", message |-> message]
end_document == [call |-> "end_document"]

\* the directories of the environment whose permissions stop the walk, by
\* name: one that cannot be listed (os.scandir raises PermissionError), one
\* that can be listed but not searched (is_file on an entry raises
\* PermissionError), and one that can no longer be searched once the walk
\* has enumerated its entries
Unlistable == {"sealed"}
Unsearchable == {"closed"}
Revoked == {"revoked"}

\* the path lies below a directory of one of these names
Below(path, dirs) == \E k \in 1..(Len(path) - 1) : path[k] \in dirs

\* the directories at the top of the tree
TopDirs(files) == {q[1] : q \in {p \in DOMAIN files : Len(p) > 1}}

\* path_utils.find_files: the files rglob("*") yields before is_file raises.
\* rglob passes over a directory it may not list.  It yields the entries of
\* the top directory first and then those of each subdirectory, in the order
\* scandir lists them; before is the set of top-level subdirectories listed
\* before the first entry on which is_file raises PermissionError, which ends
\* the generator (the directories that cannot be searched are at the top
\* level here)
find_files(files, before) ==
    LET listed == {p \in DOMAIN files : ~Below(p, Unlistable)}
    IN IF \E p \in listed : Below(p, Unsearchable)
       THEN {p \in listed : ~Below(p, Unsearchable) /\ (Len(p) = 1 \/ p[1] \in before)}
       ELSE listed

\* the orders of listing that find_files can tell apart: the sets of
\* top-level subdirectories listed before the one that cannot be searched,
\* and one order when every listed file can be reached
Befores(files) ==
    IF \E p \in DOMAIN files : ~Below(p, Unlistable) /\ Below(p, Unsearchable)
    THEN SUBSET (TopDirs(files) \ Unsearchable)
    ELSE {{}}

\* file_path.is_file() in should_ignore raises PermissionError
is_file_raises(path) == Below(path, Revoked)

\* the outcome of a call on the exporter
ExporterOutcome(call, error, file_count, enumerated) ==
    [call |-> call, raised |-> error # "", error |-> error, file_count |-> file_count,
     enumerated |-> enumerated]

\* a Path held where None may be held instead
Path(parts) == [parts |-> parts]

\* CodeExporter.set_directory
set_directory(d) ==
    /\ get_config_for_directory(d)
    /\ exporter' = [directory |-> Path(d),
                    config |-> IF result'.raised THEN exporter.config ELSE result'.config]
    /\ exported' = ExporterOutcome("set_directory", result'.error, 0, {})
    /\ UNCHANGED formatter

\* CodeExporter._process_file: the add_file call it makes
_process_file(cfg, files, path) ==
    LET read == read_file(cfg, files, path)
    IN add_file(PathStr(path), read[1], read[2])

\* lines 69 to 88 of export_directory: the loop runs over the sorted paths up
\* to the first on which should_include_file raises; the outcome records the
\* paths that find_files yielded, the only ones the loop may read
export_files(before) ==
    LET cfg == exporter.config
        paths == sorted(find_files(tree, before))
        raising == {i \in 1..Len(paths) : is_file_raises(paths[i])}
        reached == IF raising = {} THEN Len(paths)
                   ELSE (CHOOSE i \in raising : \A j \in raising : i <= j) - 1
        included == SelectSeq(SubSeq(paths, 1, reached),
                              LAMBDA p : should_include_file(cfg, tree, p))
    IN /\ formatter' =
              formatter
                \o <<begin_document(name(exporter.directory.parts))>>
                \o [i \in 1..Len(included) |-> _process_file(cfg, tree, included[i])]
                \o (IF raising = {} THEN <<>>
                    ELSE <<add_error("Error during export: PermissionError")>>)
                \o <<end_document>>
       /\ exported' = ExporterOutcome("export_directory", "", Len(included), Range(paths))
       /\ UNCHANGED exporter

\* export_directory without the check of lines 65 and 66: self.directory.name
\* raises AttributeError on None, and with a directory but no Config the loop
\* fails on self.file_filter, which is None, at the first path
export_directory_without_check(before) ==
    IF exporter.directory = None
    THEN /\ exported' = ExporterOutcome("export_directory", "AttributeError", 0, {})
         /\ UNCHANGED <<exporter, formatter>>
    ELSE IF exporter.config = None
    THEN /\ formatter' =
                formatter
                  \o <<begin_document(name(exporter.directory.parts))>>
                  \o (IF find_files(tree, before) = {} THEN <<>>
                      ELSE <<add_error("Error during export: AttributeError")>>)
                  \o <<end_document>>
         /\ exported' = ExporterOutcome("export_directory", "", 0, find_files(tree, before))
         /\ UNCHANGED exporter
    ELSE export_files(before)

\* CodeExporter.export_directory
export_directory(before) ==
    IF exporter.directory = None \/ exporter.config = None
    THEN /\ exported' = ExporterOutcome("export_directory", "RuntimeError", 0, {})
         /\ UNCHANGED <<exporter, formatter>>
    ELSE export_files(before)

(***************************************************************************)
(* SpecExport: a CodeExporter on the directory /p, whose .ctxport.json is  *)
(* one of a few documents and which holds a few files.                     *)
(***************************************************************************)
\* the most files picked for the exported directory, and the most exports
\* in one run
MaxTreeFiles == 2
MaxExports == 1

ExportDir == <<"p">>

BuildDoc ==
    Json(JObject(
        "language_map" :> JObject(".py" :> "py3") @@
        "filename_map" :> JObject("setup.py" :> "setup-script" @@
                                  ".ctxport.json" :> "json" @@
                                  "context.ignore" :> "gitignore") @@
        "text_extensions" :> JArray(<<JString(".ignore")>>) @@
        "ignore_patterns" :> JArray(<<JString("build/")>>)))

GlobDoc ==
    Json(JObject(
        "text_extensions" :> JArray(<<JString(".bin")>>) @@
        "ignore_patterns" :> JArray(<<JString("*.p[xy]"), JString("a/"), JString("b?ild")>>) @@
        "default_language" :> JString("text")))

\* what /p/.ctxport.json may be
ExportDocs == {Absent, BuildDoc, GlobDoc, Json(JNumber)}

\* bytes of a file that is ASCII text ("x = 1\n"), UTF-8 text with a two-byte
\* character and a '\r\n', and bytes that are not UTF-8
AsciiBytes == <<120, 32, 61, 32, 49, 10>>
Utf8Bytes == <<104, 195, 169, 13, 10>>
BinaryBytes == <<255, 254, 0, 137>>

\* the files the exported directory may hold, besides its .ctxport.json
CandidateFiles ==
    <<"sub", ".ctxport.json">> :> File(AsciiBytes, TRUE) @@
    <<"sub", "ctxport.json">> :> File(AsciiBytes, TRUE) @@
    <<"a", "b", "context.ignore">> :> File(AsciiBytes, TRUE) @@
    <<"build", "x.py">> :> File(AsciiBytes, TRUE) @@
    <<"a", "build", "b", "x.py">> :> File(AsciiBytes, TRUE) @@
    <<"build">> :> File(AsciiBytes, TRUE) @@
    <<".env">> :> File(AsciiBytes, TRUE) @@
    <<"archive.bin">> :> File(BinaryBytes, TRUE) @@
    <<"Setup.PY">> :> File(AsciiBytes, TRUE) @@
    <<"Dockerfile">> :> File(Utf8Bytes, TRUE) @@
    <<"notes.dat">> :> File(Utf8Bytes, TRUE) @@
    <<"locked.txt">> :> File(AsciiBytes, FALSE) @@
    <<"locked.dat">> :> File(AsciiBytes, FALSE) @@
    <<"src", "build.py">> :> File(AsciiBytes, TRUE)

\* the files of the exported directory: the picked ones, and its
\* .ctxport.json when dir_files holds one (whose bytes no step reads through
\* the tree)
Tree(picked, doc) ==
    LET own == IF doc = Absent THEN {} ELSE {<<".ctxport.json">>}
    IN [p \in picked \cup own |->
           IF p \in picked THEN CandidateFiles[p] ELSE File(AsciiBytes, doc # Unreadable)]

InitExport ==
    /\ IdleMerge
    /\ InitManager
    /\ InitExporter
    /\ IdleMain
    /\ IdleClassify
    /\ home = HomeOutside
    /\ xdg_config_home = FALSE
    /\ xdg_file = Absent
    /\ dotconfig_file = Absent
    /\ ignore_files = NoDirFiles
    /\ fs_changes = 0
    /\ \E doc \in ExportDocs :
          /\ dir_files = [NoDirFiles EXCEPT ![ExportDir] = doc]
          /\ \E picked \in SUBSET (DOMAIN CandidateFiles) :
                /\ Cardinality(picked) <= MaxTreeFiles
                /\ tree = Tree(picked, doc)

SetDirectory ==
    /\ set_directory(ExportDir)
    /\ UNCHANGED <<mergeVars, fsVars, tree, classifyVars, mainVars>>

\* the export_directory calls the formatter has seen
Exports == Cardinality({i \in 1..Len(formatter) : formatter[i].call = "begin_document"})

ExportDirectory ==
    /\ Exports < MaxExports
    /\ \E before \in Befores(tree) : export_directory(before)
    /\ UNCHANGED <<mergeVars, fsVars, managerVars, tree, classifyVars, mainVars>>

NextExport == SetDirectory \/ ExportDirectory

SpecExport == InitExport /\ [][NextExport]_vars

\* the formatter has received add_file for the file at this path
Added(path) ==
    \E i \in 1..Len(formatter) :
        formatter[i].call = "add_file" /\ formatter[i].path = PathStr(path)

\* the ignore patterns of the exporter's Config
ExportPatterns == Range(exporter.config.ignore_patterns)

\* the directory name of a pattern that ends in '/'
DirName(pattern) == SubSeq(pattern, 1, Len(pattern) - 1)

(***************************************************************************)
(* C6: whatever the resolved Config's ignore patterns, text extensions and *)
(* filename map contain, no file named exactly .ctxport.json, ctxport.json *)
(* or context.ignore, at any depth under the export root, is passed to the *)
(* formatter's add_file.                                                   *)
(***************************************************************************)
C6_OwnConfigFilesNeverExported ==
    \A i \in 1..Len(formatter) :
        formatter[i].call = "add_file" =>
            \A own \in {".ctxport.json", "ctxport.json", "context.ignore"} :
                /\ formatter[i].path # own
                /\ ~EndsWith(formatter[i].path, "/" \o own)

\* an export that added a file, of a directory that holds below its top level
\* a file with one of the three names, which the Config's filename_map names
\* and no ignore pattern matches
C6_Witness ==
    /\ Exports > 0
    /\ exported.file_count > 0
    /\ \E path \in DOMAIN tree :
          /\ Len(path) > 1
          /\ name(path) \in {".ctxport.json", "ctxport.json", "context.ignore"}
          /\ name(path) \in DOMAIN exporter.config.filename_map
          /\ \A pattern \in ExportPatterns : ~pattern_ignores(pattern, path)

(***************************************************************************)
(* C7: a file whose relative path has an ancestor directory component      *)
(* equal to the text before the slash of an ignore pattern ending in '/'   *)
(* is not exported, at whatever depth the component occurs and however     *)
(* many components lie below it.                                           *)
(***************************************************************************)
C7_DirectoryPatternExcludesAtAnyDepth ==
    Exports > 0 =>
        \A path \in DOMAIN tree, pattern \in ExportPatterns :
            (/\ EndsWith(pattern, "/")
             /\ \E k \in 1..(Len(path) - 1) : path[k] = DirName(pattern))
                => ~Added(path)

\* an export of a directory with a text file that one directory pattern
\* alone excludes, through a component that is not the first of the path
\* and has two components below it
C7_Witness ==
    /\ Exports > 0
    /\ \E path \in DOMAIN tree, pattern \in ExportPatterns :
          /\ EndsWith(pattern, "/")
          /\ \E k \in 2..(Len(path) - 2) : path[k] = DirName(pattern)
          /\ name(path) \notin _always_ignore_files
          /\ FileFilter_is_text_file(exporter.config, tree, path)
          /\ \A other \in ExportPatterns \ {pattern} : ~pattern_ignores(other, path)

(***************************************************************************)
(* C8: a directory pattern (ending in '/') excludes a file only through an *)
(* ancestor directory component equal to its directory name, never through *)
(* the file's own name: a text file that has none of the tool's own config *)
(* file names, that no pattern matches as a glob (as a whole path or in    *)
(* one component), and that has no ancestor component equal to a directory *)
(* pattern's name, is exported.                                            *)
(***************************************************************************)
C8_DirectoryPatternSparesFileName ==
    Exports > 0 =>
        \A path \in DOMAIN tree :
            (/\ name(path) \notin _always_ignore_files
             /\ FileFilter_is_text_file(exporter.config, tree, path)
             /\ \A pattern \in ExportPatterns :
                   /\ ~fnmatch(PathStr(path), pattern)
                   /\ \A k \in 1..Len(path) : ~fnmatch(path[k], pattern)
                   /\ EndsWith(pattern, "/")
                         => \A k \in 1..(Len(path) - 1) : path[k] # DirName(pattern))
                => Added(path)

(***************************************************************************)
(* C9: a file that is not ignored, whose lowercase name is not in the      *)
(* filename map, whose lowercase extension is not a text extension, whose  *)
(* MIME guess does not start with text/, and whose first 4096 bytes do not *)
(* decode as UTF-8, is not exported.                                       *)
(***************************************************************************)
C9_BinaryFileExcluded ==
    Exports > 0 =>
        \A path \in DOMAIN tree :
            (/\ ~should_ignore(exporter.config, tree, path)
             /\ lower(name(path)) \notin DOMAIN exporter.config.filename_map
             /\ lower(suffix(path)) \notin exporter.config.text_extensions
             /\ ~StartsWith(guess_type(path), "text/")
             /\ ~decode_utf8(Upto(tree[path].bytes, 4096)).ok)
                => ~Added(path)

(***************************************************************************)
(* C10: the language tag of an exported file is the value of the first     *)
(* rule that applies: the filename map's value for the lowercase file      *)
(* name; else the extension map's value for the lowercase extension; else  *)
(* the Config's default language; else empty. A filename-map entry wins    *)
(* over an extension-map entry for the same file.                          *)
(***************************************************************************)
FirstRuleLanguage(cfg, path) ==
    IF lower(name(path)) \in DOMAIN cfg.filename_map
    THEN cfg.filename_map[lower(name(path))]
    ELSE IF lower(suffix(path)) \in DOMAIN cfg.language_map
    THEN cfg.language_map[lower(suffix(path))]
    ELSE IF cfg.default_language # "" THEN cfg.default_language
    ELSE ""

C10_LanguageByFirstRule ==
    Exports > 0 =>
        \A path \in DOMAIN tree, i \in 1..Len(formatter) :
            (formatter[i].call = "add_file" /\ formatter[i].path = PathStr(path))
                => formatter[i].language = FirstRuleLanguage(exporter.config, path)

\* an exported file whose name, not all lowercase, has an entry in the
\* filename map and whose extension has a different entry in the extension map
C10_Witness ==
    /\ Exports > 0
    /\ \E path \in DOMAIN tree :
          /\ Added(path)
          /\ name(path) # lower(name(path))
          /\ lower(name(path)) \in DOMAIN exporter.config.filename_map
          /\ lower(suffix(path)) \in DOMAIN exporter.config.language_map
          /\ exporter.config.filename_map[lower(name(path))]
                 # exporter.config.language_map[lower(suffix(path))]

(***************************************************************************)
(* SpecClassify: a FileFilter and a FileHandler constructed on a Config,   *)
(* asked about the files of their base directory.                          *)
(***************************************************************************)
\* FileFilter.__init__ and FileHandler.__init__
FileFilter(cfg, base_directory) == [config |-> cfg, base_directory |-> base_directory]
FileHandler(cfg, base_directory) == [config |-> cfg, base_directory |-> base_directory]

\* a Config of a filename map only; one that maps names and extensions the
\* default Config does not know, with no text extension; and the Config
\* resolved for a directory whose .ctxport.json is BuildDoc
DockerfileConfig == Config(EmptyDict, "dockerfile" :> "dockerfile", {}, <<>>, "")

NamesConfig ==
    Config(".py" :> "python" @@ ".bin" :> "hexdump",
           "archive.bin" :> "binary-map" @@ "setup.py" :> "setup-script" @@
               "locked.dat" :> "locked-lang",
           {}, <<"build/">>, "text")

BuildConfig == merge(DefaultConfigValue, _load_config_file(BuildDoc).value)

\* a Config whose patterns match a whole relative path only ("src/*"), a
\* directory name or a file name as a glob, and a directory by its name
GlobConfig ==
    Config(EmptyDict, EmptyDict, {".py", ".dat"},
           <<"src/*", "a", "*.dat", "b?ild", "sub/">>, "")

ClassifyConfigs ==
    {EmptyConfig, DefaultConfigValue, DockerfileConfig, NamesConfig, BuildConfig, GlobConfig}

\* two files of the base directory at once
ClassifyPairs ==
    {{<<"Dockerfile">>, <<"archive.bin">>}, {<<"Setup.PY">>, <<"notes.dat">>},
     {<<"build", "x.py">>, <<"locked.dat">>}}

InitClassify ==
    /\ IdleMerge
    /\ InitManager
    /\ InitNoFiles
    /\ InitExporter
    /\ IdleMain
    /\ \E cfg \in ClassifyConfigs :
          /\ file_filter = FileFilter(cfg, ExportDir)
          /\ file_handler = FileHandler(cfg, ExportDir)
    /\ classified = NotCalled
    /\ \E picked \in {{path} : path \in DOMAIN CandidateFiles} \cup ClassifyPairs :
          tree = Tree(picked, Absent)

\* what the first call about each path returned, with this one
FirstOf(first, path, returned) ==
    IF path \in DOMAIN first THEN first ELSE DictUnion(first, path :> returned)

\* file_filter.should_include_file(path): what it returned, and what its
\* should_ignore returned
ShouldIncludeFile ==
    /\ \E path \in DOMAIN tree :
          LET included == should_include_file(file_filter.config, tree, path)
          IN classified' =
                 [classified EXCEPT
                     !.should_include_file =
                         [path |-> path,
                          ignored |-> should_ignore(file_filter.config, tree, path),
                          included |-> included],
                     !.first_included = FirstOf(@, path, included)]
    /\ UNCHANGED <<mergeVars, fsVars, managerVars, exportVars, file_filter, file_handler,
                   mainVars>>

\* file_handler.get_language(path)
GetLanguage ==
    /\ \E path \in DOMAIN tree :
          LET language == get_language(file_handler.config, path)
          IN classified' =
                 [classified EXCEPT
                     !.get_language = [path |-> path, language |-> language],
                     !.first_language = FirstOf(@, path, language)]
    /\ UNCHANGED <<mergeVars, fsVars, managerVars, exportVars, file_filter, file_handler,
                   mainVars>>

\* file_handler.read_file(path)
ReadFile ==
    /\ \E path \in DOMAIN tree :
          LET read == read_file(file_handler.config, tree, path)
          IN classified' =
                 [classified EXCEPT
                     !.read_file = [path |-> path, content |-> read[1], language |-> read[2]],
                     !.first_language = FirstOf(@, path, read[2])]
    /\ UNCHANGED <<mergeVars, fsVars, managerVars, exportVars, file_filter, file_handler,
                   mainVars>>

NextClassify == ShouldIncludeFile \/ GetLanguage \/ ReadFile

SpecClassify == InitClassify /\ [][NextClassify]_vars

(***************************************************************************)
(* C11: a regular file that is not ignored and whose lowercase name is a   *)
(* key of the filename map is included, and its language is that key's     *)
(* value, whatever its extension, its content and the text-extension set   *)
(* (also the empty one): Dockerfile mapped to dockerfile is included with  *)
(* language dockerfile.                                                    *)
(***************************************************************************)
NamedInFilenameMap(cfg, path) ==
    /\ ~should_ignore(cfg, tree, path)
    /\ lower(name(path)) \in DOMAIN cfg.filename_map

C11_FilenameMapMakesText ==
    /\ classified.should_include_file # None =>
          LET call == classified.should_include_file
          IN NamedInFilenameMap(file_filter.config, call.path) => call.included
    /\ classified.get_language # None =>
          LET call == classified.get_language
              cfg == file_handler.config
          IN NamedInFilenameMap(cfg, call.path)
                 => call.language = cfg.filename_map[lower(name(call.path))]
    /\ classified.read_file # None =>
          LET call == classified.read_file
              cfg == file_handler.config
          IN NamedInFilenameMap(cfg, call.path)
                 => call.language = cfg.filename_map[lower(name(call.path))]

\* Dockerfile, on a Config with no text extension whose filename map maps
\* dockerfile to dockerfile, found included and of language dockerfile
C11_Witness ==
    /\ file_filter # None
    /\ file_filter.config.text_extensions = {}
    /\ classified.should_include_file # None
    /\ classified.should_include_file.path = <<"Dockerfile">>
    /\ classified.should_include_file.included
    /\ classified.get_language # None
    /\ classified.get_language.path = <<"Dockerfile">>
    /\ classified.get_language.language = "dockerfile"

(***************************************************************************)
(* C12: every existing .ctxport.json in the target directory or in one of  *)
(* its ancestors up to the filesystem root, the root directory's own file  *)
(* included, contributes to the resolved Config; they are merged root-most *)
(* first, so that a file closer to the target overrides one further up.    *)
(***************************************************************************)
\* the directories from the root down to d that hold a .ctxport.json
ExistingFromRoot(d) == SelectSeq(FromRoot(d), LAMBDA x : dir_files[x] # Absent)

\* the Config resolved for d when these directories' files are merged in
\* turn onto the default and global Config, and the legacy patterns last
MergedDownFrom(dirs, d) ==
    LET layered == MergeEach(merge(DefaultConfigValue, _global_config),
                             [i \in 1..Len(dirs) |->
                                 _load_config_file(dir_files[dirs[i]]).value])
        legacy_patterns == _load_legacy_ignore_file(ignore_files[d])
    IN IF legacy_patterns # <<>>
       THEN merge(layered, Config(EmptyDict, EmptyDict, {}, legacy_patterns, ""))
       ELSE layered

C12_EveryAncestorFileContributes ==
    (/\ Resolved
     /\ \A x \in Range(FromRoot(result.directory)) :
           dir_files[x] # Absent => _load_config_file(dir_files[x]).ok)
        => result.config
               = MergedDownFrom(ExistingFromRoot(result.directory), result.directory)

(***************************************************************************)
(* C13: of the global locations $XDG_CONFIG_HOME/ctxport/ctxport.json,     *)
(* ~/.config/ctxport/ctxport.json and ~/.ctxport.json, tried in that       *)
(* order, only the first that exists is the global layer of a resolved     *)
(* Config, whatever it contains (it counts as empty when it fails to       *)
(* load): later locations do not change the global layer.  When none       *)
(* exists the global layer is empty and resolution succeeds.               *)
(***************************************************************************)
\* the global layer the first existing location gives
FirstExisting(locations) ==
    LET existing == {i \in 1..Len(locations) : locations[i] # Absent}
    IN IF existing = {} THEN EmptyConfig
       ELSE _load_config_file(
                AsEmpty(locations[CHOOSE i \in existing : \A j \in existing : i <= j])).value

C13_FirstGlobalLocationWins ==
    (result # None /\ result.call = "get_config_for_directory") =>
        /\ _global_config = FirstExisting(config_locations(CurrentFiles))
        /\ ~result.raised =>
              Returned(result.config) =
                  merged_config(CurrentFiles, DefaultConfigValue,
                                FirstExisting(config_locations(CurrentFiles)),
                                result.directory)
        /\ (/\ \A i \in 1..Len(config_locations(CurrentFiles)) :
                  config_locations(CurrentFiles)[i] = Absent
            /\ \A d \in Dirs : ~IsMalformed(dir_files[d]))
              => (~result.raised /\ _global_config = EmptyConfig)

(***************************************************************************)
(* C14: when the target directory holds a context.ignore, each of its      *)
(* lines that, stripped of surrounding whitespace, is not empty and does   *)
(* not start with '#' is an ignore pattern of the resolved Config; the     *)
(* legacy layer is merged after all other layers, so the patterns not      *)
(* present before come last, in file order; it changes no field other      *)
(* than ignore_patterns, and a context.ignore of an ancestor directory     *)
(* contributes nothing.                                                    *)
(***************************************************************************)
\* the pattern lines of a context.ignore
PatternLines(file) ==
    IF file = Absent THEN <<>>
    ELSE SelectSeq([i \in 1..Len(file.lines) |-> Strip(file.lines[i])],
                   LAMBDA line : line # "" /\ SubSeq(line, 1, 1) # "#")

\* what the directory resolves to when no directory holds a context.ignore
WithoutLegacyFiles(d) ==
    merged_config([CurrentFiles EXCEPT !.ignore_files = NoDirFiles],
                  DefaultConfigValue, _global_config, d).value

\* the entries of s that are not in the list before, each once, in order
RECURSIVE NewIn(_, _)
NewIn(before, s) ==
    IF s = <<>> THEN <<>>
    ELSE IF Head(s) \in Range(before) THEN NewIn(before, Tail(s))
    ELSE <<Head(s)>> \o NewIn(Append(before, Head(s)), Tail(s))

C14_LegacyIgnoreFileMergedLast ==
    Resolved =>
        LET d == result.directory
            without == WithoutLegacyFiles(d)
            lines == PatternLines(ignore_files[d])
        IN /\ \A i \in 1..Len(lines) : lines[i] \in Range(result.config.ignore_patterns)
           /\ result.config.ignore_patterns
                  = without.ignore_patterns \o NewIn(without.ignore_patterns, lines)
           /\ result.config.language_map = without.language_map
           /\ result.config.filename_map = without.filename_map
           /\ result.config.text_extensions = without.text_extensions
           /\ result.config.default_language = without.default_language

\* a resolved directory whose context.ignore holds a pattern the other
\* layers have and one they lack, below a directory with a context.ignore
C14_Witness ==
    /\ Resolved
    /\ ignore_files[result.directory] # Absent
    /\ \E a \in Dirs : a # result.directory /\ ignore_files[a] # Absent
    /\ LET without == WithoutLegacyFiles(result.directory)
           lines == PatternLines(ignore_files[result.directory])
       IN /\ \E i \in 1..Len(lines) : lines[i] \in Range(without.ignore_patterns)
          /\ \E i \in 1..Len(lines) : lines[i] \notin Range(without.ignore_patterns)
          /\ without.default_language # ""

(***************************************************************************)
(* SpecObjects: Config.merge on Config objects.  A Config's map, set and   *)
(* list fields refer to objects of the heap (a str is immutable and held   *)
(* in the field itself); the caller of merge may change the objects of the *)
(* Config it got back.                                                     *)
(***************************************************************************)
ContainerFields == <<"language_map", "filename_map", "text_extensions", "ignore_patterns">>

DictObject(d) == [dict |-> d]
SetObject(s) == [set |-> s]
ListObject(l) == [list |-> l]

\* the objects a Config of these contents is constructed with
Objects(cfg) ==
    <<DictObject(cfg.language_map), DictObject(cfg.filename_map),
      SetObject(cfg.text_extensions), ListObject(cfg.ignore_patterns)>>

\* a Config whose objects are the four allocated after the first n
Refs(n, default_language) ==
    [language_map |-> n + 1, filename_map |-> n + 2, text_extensions |-> n + 3,
     ignore_patterns |-> n + 4, default_language |-> default_language]

\* the contents of a Config object
Deref(h, refs) ==
    Config(h[refs.language_map].dict, h[refs.filename_map].dict,
           h[refs.text_extensions].set, h[refs.ignore_patterns].list,
           refs.default_language)

\* the merged Config's field refers to the receiver's object when the
\* argument's is empty
receiver_object_if_unchanged(field, h, self, other) ==
    LET theirs == h[other[ContainerFields[field]]]
    IN IF theirs \in {DictObject(EmptyDict), SetObject({}), ListObject(<<>>)}
       THEN self[ContainerFields[field]]
       ELSE Len(h) + field

\* the object a field of the Config returned by merge refers to: {**a, **b},
\* a | b and list(...) each build a new object
merged_object(field, h, self, other) == Len(h) + field

\* merge that returns the receiver itself when the argument sets nothing
merge_objects_unless_empty(h, self, other) ==
    IF Deref(h, other) = EmptyConfig THEN [heap |-> h, refs |-> self]
    ELSE LET contents == merge(Deref(h, self), Deref(h, other))
         IN [heap |-> h \o Objects(contents),
             refs |-> Refs(Len(h), contents.default_language)]

\* Config.merge on two Config objects: the heap after it, and the Config
\* returned
merge_objects(h, self, other) ==
    LET contents == merge(Deref(h, self), Deref(h, other))
    IN [heap |-> h \o Objects(contents),
        refs |-> [language_map |-> merged_object(1, h, self, other),
                  filename_map |-> merged_object(2, h, self, other),
                  text_extensions |-> merged_object(3, h, self, other),
                  ignore_patterns |-> merged_object(4, h, self, other),
                  default_language |-> contents.default_language]]

AliasConfigs ==
    {EmptyConfig,
     Config(".a" :> "lang-1", "file1" :> "lang-1", {".a"}, <<"x">>, "text"),
     Config(".a" :> "lang-2" @@ ".b" :> "lang-1", EmptyDict, {".b"}, <<"y", "x">>, "")}

InitObjects ==
    /\ cfgA \in AliasConfigs
    /\ cfgB \in AliasConfigs
    /\ merged = None
    /\ IdleThird
    /\ heap = Objects(cfgA) \o Objects(cfgB)
    /\ refA = Refs(0, cfgA.default_language)
    /\ refB = Refs(4, cfgB.default_language)
    /\ refMerged = None
    /\ IdleManager

\* merged = a.merge(b) on the objects a and b
MergeObjects ==
    /\ refMerged = None
    /\ LET r == merge_objects(heap, refA, refB)
       IN /\ heap' = r.heap
          /\ refMerged' = r.refs
          /\ merged' = Deref(r.heap, r.refs)
    /\ UNCHANGED <<cfgA, cfgB, cfgC, regrouped, refA, refB, fsVars, managerVars, exportVars, classifyVars,
                   mainVars>>

\* the caller changes a field of the Config that merge returned:
\* merged.language_map['.new'] = 'new-lang', merged.filename_map.clear(),
\* merged.text_extensions.add('.new'), merged.text_extensions.clear(),
\* merged.ignore_patterns.append('new/') (once), merged.ignore_patterns.clear()
ChangeMerged ==
    /\ refMerged # None
    /\ \/ heap' = [heap EXCEPT ![refMerged.language_map] =
                      DictObject(DictUnion(@.dict, ".new" :> "new-lang"))]
       \/ heap' = [heap EXCEPT ![refMerged.filename_map] = DictObject(EmptyDict)]
       \/ heap' = [heap EXCEPT ![refMerged.text_extensions] =
                      SetObject(@.set \cup {".new"})]
       \/ heap' = [heap EXCEPT ![refMerged.text_extensions] = SetObject({})]
       \/ /\ "new/" \notin Range(heap[refMerged.ignore_patterns].list)
          /\ heap' = [heap EXCEPT ![refMerged.ignore_patterns] =
                         ListObject(Append(@.list, "new/"))]
       \/ heap' = [heap EXCEPT ![refMerged.ignore_patterns] = ListObject(<<>>)]
    /\ UNCHANGED <<cfgA, cfgB, cfgC, regrouped, merged, refA, refB, refMerged, fsVars, managerVars,
                   exportVars, classifyVars, mainVars>>

NextObjects == MergeObjects \/ ChangeMerged

SpecObjects == InitObjects /\ [][NextObjects]_vars

(***************************************************************************)
(* C15: Config.merge mutates neither its receiver nor its argument, and    *)
(* the Config it returns shares no map, set or list with them: after       *)
(* A.merge(B), and after any later change to the result's fields, A and B  *)
(* have the contents they had before the merge.                            *)
(***************************************************************************)
C15_MergeSharesNothing ==
    refMerged # None =>
        /\ Deref(heap, refA) = cfgA
        /\ Deref(heap, refB) = cfgB
        /\ \A i, j \in 1..Len(ContainerFields) :
              /\ refMerged[ContainerFields[i]] # refA[ContainerFields[j]]
              /\ refMerged[ContainerFields[i]] # refB[ContainerFields[j]]

\* the result of a merge with an argument of empty maps, set and list,
\* every field of it changed since
C15_Witness ==
    /\ refMerged # None
    /\ cfgA # EmptyConfig
    /\ cfgB = EmptyConfig
    /\ merged = cfgA
    /\ \A i \in 1..Len(ContainerFields) :
          Deref(heap, refMerged)[ContainerFields[i]] # merged[ContainerFields[i]]

(***************************************************************************)
(* SpecWalk: a CodeExporter on the directory /p, which has no config file  *)
(* and holds a few files, some that cannot be read and some in directories *)
(* whose permissions stop the walk.                                        *)
(***************************************************************************)
\* the most files of the walked directory
MaxWalkFiles == 3

\* the files the walked directory may hold
WalkFiles ==
    <<"a.txt">> :> File(AsciiBytes, TRUE) @@
    <<"archive.bin">> :> File(BinaryBytes, TRUE) @@
    <<"locked.dat">> :> File(AsciiBytes, FALSE) @@
    <<"locked.txt">> :> File(AsciiBytes, FALSE) @@
    <<"closed", "x.py">> :> File(AsciiBytes, TRUE) @@
    <<"sealed", "x.py">> :> File(AsciiBytes, TRUE) @@
    <<"revoked", "x.py">> :> File(AsciiBytes, TRUE) @@
    <<"m", "x.py">> :> File(AsciiBytes, TRUE) @@
    <<"m.d", "x.py">> :> File(Utf8Bytes, TRUE) @@
    <<"z", "x.py">> :> File(AsciiBytes, TRUE)

InitWalk ==
    /\ IdleMerge
    /\ InitManager
    /\ InitNoFiles
    /\ InitExporter
    /\ IdleMain
    /\ IdleClassify
    /\ \E picked \in SUBSET (DOMAIN WalkFiles) :
          /\ Cardinality(picked) <= MaxWalkFiles
          /\ tree = [p \in picked |-> WalkFiles[p]]

SpecWalk == InitWalk /\ [][NextExport]_vars

\* the file of the tree that the formatter was given under this str
PathOf(str) == CHOOSE p \in DOMAIN tree : PathStr(p) = str

\* the index of the end_document call that closes the document begun at i
DocumentEnd(i) ==
    CHOOSE j \in i..Len(formatter) :
        /\ formatter[j].call = "end_document"
        /\ \A k \in i..(j - 1) : formatter[k].call # "end_document"

\* the files added to the document begun at i
AddedIn(i) ==
    {PathOf(formatter[k].path) :
        k \in {l \in i..DocumentEnd(i) : formatter[l].call = "add_file"}}

\* the files that the walk reaches when no is_file call ends it: those not
\* below a directory that cannot be listed
Listed == {p \in DOMAIN tree : ~Below(p, Unlistable)}

\* the files on which should_include_file raises
Interrupting == {p \in Listed : is_file_raises(p)}

\* no listed file is in a directory that cannot be searched: the walk hands
\* over every listed file
WalkComplete == \A p \in Listed : ~Below(p, Unsearchable)

C17_PermissionErrorDoesNotEndWalk ==
    (Exports > 0 /\ Interrupting = {}) =>
        \A p \in DOMAIN tree :
            (/\ ~Below(p, Unlistable \cup Unsearchable)
             /\ should_include_file(exporter.config, tree, p))
                => Added(p)

\* the same for a tree whose only directories that deny access are ones
\* that cannot be listed
C17_UnlistableDirectorySkipped ==
    (Exports > 0 /\ Interrupting = {} /\ WalkComplete) =>
        \A p \in DOMAIN tree :
            (/\ ~Below(p, Unlistable)
             /\ should_include_file(exporter.config, tree, p))
                => Added(p)

C17_WitnessUnlistable ==
    /\ Exports > 0
    /\ Interrupting = {}
    /\ WalkComplete
    /\ \E p, q \in DOMAIN tree :
          /\ Below(p, Unlistable)
          /\ ~Added(p)
          /\ Len(q) > 1
          /\ PathLess(p, q)
          /\ Added(q)

(***************************************************************************)
(* C18: a read error on a file does not stop the export.  A file that      *)
(* cannot be read and is classified by the content probe is excluded; one  *)
(* that is accepted without the probe is added with the line reporting the *)
(* error as its content; and every included file later in the order is     *)
(* added.  (Exports that a permission error of the walk cuts short are     *)
(* left out.)                                                              *)
(***************************************************************************)
\* the file is classified by its content: neither its extension, its name
\* nor its MIME type decides
Probed(cfg, path) ==
    /\ lower(suffix(path)) \notin cfg.text_extensions
    /\ lower(name(path)) \notin DOMAIN cfg.filename_map
    /\ ~StartsWith(guess_type(path), "text/")

\* the add_file call made for the file
AddFileCall(path) ==
    formatter[CHOOSE i \in 1..Len(formatter) :
                  formatter[i].call = "add_file" /\ formatter[i].path = PathStr(path)]

C18_ReadErrorDoesNotStopExport ==
    (Exports > 0 /\ WalkComplete /\ Interrupting = {}) =>
        \A p \in Listed :
            (~tree[p].readable /\ ~should_ignore(exporter.config, tree, p)) =>
                /\ IF Probed(exporter.config, p)
                   THEN ~Added(p)
                   ELSE /\ Added(p)
                        /\ AddFileCall(p).content = ErrorContent("PermissionError")
                /\ \A q \in Listed :
                      (PathLess(p, q) /\ should_include_file(exporter.config, tree, q))
                          => Added(q)

\* an export of a directory with a file that fails in the probe, then one
\* that fails when its content is read, then a readable one that is added
C18_Witness ==
    /\ Exports > 0
    /\ WalkComplete
    /\ Interrupting = {}
    /\ \E p, q, r \in Listed :
          /\ PathLess(p, q) /\ PathLess(q, r)
          /\ ~tree[p].readable /\ Probed(exporter.config, p) /\ ~Added(p)
          /\ ~tree[q].readable /\ Added(q)
          /\ tree[r].readable /\ Added(r)
          /\ "text" \in DOMAIN AddFileCall(r).content

(***************************************************************************)
(* SpecMain: one run of main (main.py) on the command line of an export or *)
(* of an --init-config / --init-global-config request.  The run goes       *)
(* through the configuration commands, the check of the directory,         *)
(* set_directory, export_directory and the delivery of the output.         *)
(***************************************************************************)
\* what normalize_path(args.directory) finds: a directory, nothing, a
\* regular file, or a str that it cannot make a path of (it raises)
Targets == {"directory", "missing", "file", "unresolvable"}

\* the process exit status
ExitCode(n) == [code |-> n]

\* the str that end_document returned, by the calls that made it
Document(calls) == [document |-> calls]

OutputPath == Path(<<"out.md">>)

NotStarted ==
    [pc |-> "start", exit_code |-> None, uncaught |-> "", stdout |-> <<>>,
     written |-> None, copied |-> None, created |-> None, output_content |-> None]

\* the run ends: sys.exit(main()) with the value main returned
Return(r, n) == [r EXCEPT !.pc = "done", !.exit_code = ExitCode(n)]

\* an exception leaves main: the interpreter prints the traceback and exits
\* with status 1
Uncaught(r, error) == [r EXCEPT !.pc = "done", !.exit_code = ExitCode(1), !.uncaught = error]

\* print(...) of a message of main
Printed(r, message) == [r EXCEPT !.stdout = Append(@, message)]

\* the directory check without the is_dir test
missing_directory(target) == target \in {"missing", "unresolvable"}

\* main, lines 157-168: the directory argument does not name a directory
invalid_directory(target) == target # "directory"

\* the files of the directory that main exports
MainTrees ==
    {[p \in picked |-> WalkFiles[p]] :
        picked \in {{}, {<<"a.txt">>}, {<<"a.txt">>, <<"revoked", "x.py">>},
                    {<<"locked.txt">>, <<"m", "x.py">>}}}

InitMain ==
    /\ IdleMerge
    /\ InitManager
    /\ InitExporter
    /\ IdleClassify
    /\ home = HomeOutside
    /\ xdg_config_home = FALSE
    /\ xdg_file = Absent
    /\ dotconfig_file = Absent
    /\ ignore_files = NoDirFiles
    /\ fs_changes = 0
    /\ args \in [output : {None, OutputPath}, verbose : {FALSE},
                 init_config : BOOLEAN, init_global_config : BOOLEAN]
    /\ env \in [target : Targets, output_writable : BOOLEAN, clipboard_works : BOOLEAN,
                config_dir_creatable : BOOLEAN, config_writable : BOOLEAN]
    /\ run = NotStarted
    /\ IF env.target = "directory"
       THEN /\ tree \in MainTrees
            /\ \E doc \in {Absent, BuildDoc, Json(JNumber)} :
                  dir_files = [NoDirFiles EXCEPT ![ExportDir] = doc]
       ELSE /\ tree = EmptyDict
            /\ dir_files = NoDirFiles

\* main, lines 153-155, and handle_config_initialization: --init-config
\* writes ./.ctxport.json, --init-global-config makes ~/.config/ctxport and
\* writes ctxport.json in it; create_example_config returns False when it
\* cannot write, and main returns 0
MainInitConfig ==
    /\ run.pc = "start"
    /\ args.init_config \/ args.init_global_config
    /\ run' =
          IF args.init_config
          THEN IF env.config_writable
               THEN Return([Printed(run, "Created example configuration")
                               EXCEPT !.created = Path(<<".ctxport.json">>)], 0)
               ELSE Return(Printed(run, "Failed to create example configuration"), 0)
          ELSE IF ~env.config_dir_creatable
          THEN Uncaught(run, "PermissionError")
          ELSE IF env.config_writable
          THEN Return([Printed(run, "Created global example configuration")
                          EXCEPT !.created = Path(<<"~", ".config", "ctxport", "ctxport.json">>)],
                      0)
          ELSE Return(Printed(run, "Failed to create global example configuration"), 0)
    /\ UNCHANGED <<mergeVars, fsVars, managerVars, exportVars, classifyVars, args, env>>

\* main, lines 157-168: return 1 for a directory argument that does not
\* name a directory
MainInvalidDirectory ==
    /\ run.pc = "start"
    /\ ~(args.init_config \/ args.init_global_config)
    /\ invalid_directory(env.target)
    /\ run' = Return(run, 1)
    /\ UNCHANGED <<mergeVars, fsVars, managerVars, exportVars, classifyVars, args, env>>

\* main, lines 171-172: CodeExporter(config_manager) and set_directory, in
\* no try statement
MainSetDirectory ==
    /\ run.pc = "start"
    /\ ~(args.init_config \/ args.init_global_config)
    /\ ~invalid_directory(env.target)
    /\ set_directory(ExportDir)
    /\ run' = IF exported'.raised THEN Uncaught(run, exported'.error)
              ELSE [run EXCEPT !.pc = "export"]
    /\ UNCHANGED <<mergeVars, fsVars, tree, classifyVars, args, env>>

\* main, lines 175-179: export_directory; an exception from it makes main
\* return 1
MainExportDirectory ==
    /\ run.pc = "export"
    /\ \E before \in Befores(tree) : export_directory(before)
    /\ run' = IF exported'.raised THEN Return(run, 1)
              ELSE [run EXCEPT !.pc = "deliver", !.output_content = Document(formatter')]
    /\ UNCHANGED <<mergeVars, fsVars, managerVars, tree, classifyVars, args, env>>

\* main, lines 182-199: write_to_file for -o, the clipboard otherwise; when
\* the clipboard fails the output is printed and main returns 1
MainDeliver ==
    /\ run.pc = "deliver"
    /\ run' =
          IF args.output # None
          THEN IF env.output_writable
               THEN Return([Printed(run, "Successfully exported")
                               EXCEPT !.written = run.output_content], 0)
               ELSE Return(run, 1)
          ELSE IF env.clipboard_works
               THEN Return([Printed(run, "Successfully copied")
                               EXCEPT !.copied = run.output_content], 0)
               ELSE Return(Printed(Printed(run, "Error: Could not copy to clipboard"),
                                   "output_content"), 1)
    /\ UNCHANGED <<mergeVars, fsVars, managerVars, exportVars, classifyVars, args, env>>

NextMain ==
    \/ MainInitConfig
    \/ MainInvalidDirectory
    \/ MainSetDirectory
    \/ MainExportDirectory
    \/ MainDeliver

SpecMain == InitMain /\ [][NextMain]_vars

\* the run has ended
Ended == run # None /\ run.pc = "done"

\* the directory argument names no directory
TargetInvalid == env.target # "directory"

\* the run was asked to write an example config
InitRequested == args.init_config \/ args.init_global_config

\* export_directory returned the document
ExportSucceeded == exported # None /\ exported.call = "export_directory" /\ ~exported.raised

\* the output is in the output file or in the clipboard
Delivered == run.written # None \/ run.copied # None

(***************************************************************************)
(* C19: a run of main ends with exit code 1 when the target directory is   *)
(* invalid, when the export fails, and when the output reached neither the *)
(* output file nor the clipboard; it ends with exit code 0 exactly when    *)
(* the export succeeded and its output was delivered.                      *)
(***************************************************************************)
C19_ExitCode ==
    Ended =>
        /\ TargetInvalid => run.exit_code = ExitCode(1)
        /\ ~ExportSucceeded => run.exit_code = ExitCode(1)
        /\ ~Delivered => run.exit_code = ExitCode(1)
        /\ run.exit_code = ExitCode(0) <=> (ExportSucceeded /\ Delivered)

\* the same of the runs that are not asked to write an example config
C19_ExitCodeOfExportRuns ==
    (Ended /\ ~InitRequested) =>
        /\ TargetInvalid => run.exit_code = ExitCode(1)
        /\ ~ExportSucceeded => run.exit_code = ExitCode(1)
        /\ ~Delivered => run.exit_code = ExitCode(1)
        /\ run.exit_code = ExitCode(0) <=> (ExportSucceeded /\ Delivered)

C19_WitnessExportRuns ==
    /\ Ended
    /\ ~InitRequested
    /\ ExportSucceeded
    /\ args.output # None
    /\ ~env.output_writable
    /\ env.clipboard_works
    /\ run.exit_code = ExitCode(1)

(***************************************************************************)
(* C20: a run with a target that does not exist or is not a directory ends *)
(* with exit code 1 before any processing: no config is resolved, no file  *)
(* is enumerated or read, the formatter receives no call and nothing is    *)
(* written to the output file or the clipboard.                            *)
(***************************************************************************)
NothingProcessed ==
    /\ result = None
    /\ _global_config = None
    /\ _cached_configs = EmptyDict
    /\ exporter = [directory |-> None, config |-> None]
    /\ exported = None
    /\ formatter = <<>>
    /\ run.output_content = None
    /\ run.written = None
    /\ run.copied = None

ConfigFilesPresent ==
    ({xdg_file, dotconfig_file} \cup {dir_files[d] : d \in DOMAIN dir_files}) \ {Absent}

IsComment(s) == SubSeq(s, 1, 1) = "#"

NoCommentEntries(cfg) ==
    /\ \A k \in DOMAIN cfg.language_map : ~IsComment(k)
    /\ \A k \in DOMAIN cfg.filename_map : ~IsComment(k)
    /\ \A x \in cfg.text_extensions : ~IsComment(x)
    /\ \A i \in 1..Len(cfg.ignore_patterns) : ~IsComment(cfg.ignore_patterns[i])

\* the entries of a map of the file that are no comments are those of the
\* loaded map
MapKept(members, loaded) ==
    /\ DOMAIN loaded = {k \in DOMAIN members : ~IsComment(k)}
    /\ \A k \in DOMAIN loaded : loaded[k] = members[k]

\* the strings of a list of the file that are no comments, in their order
RECURSIVE ItemsKept(_)
ItemsKept(items) ==
    IF items = <<>> THEN <<>>
    ELSE IF IsComment(items[1].s) THEN ItemsKept(Tail(items))
    ELSE <<items[1].s>> \o ItemsKept(Tail(items))

\* the file without its top-level keys that are none of the five
KnownPart(file) ==
    Json(JObject([k \in DOMAIN file.value.members \cap KnownKeys |-> file.value.members[k]]))

C21_CommentEntriesDropped ==
    /\ Resolved => NoCommentEntries(result.config)
    /\ \A file \in ConfigFilesPresent :
          (/\ file.kind = "json"
           /\ file.value.t = "object"
           /\ _load_config_file(file).ok) =>
              LET cfg == _load_config_file(file).value
                  data == file.value.members
              IN /\ NoCommentEntries(cfg)
                 /\ IsDictAt(file.value, "language_map") =>
                       MapKept(data["language_map"].members, cfg.language_map)
                 /\ IsDictAt(file.value, "filename_map") =>
                       MapKept(data["filename_map"].members, cfg.filename_map)
                 /\ IsListAt(file.value, "text_extensions") =>
                       cfg.text_extensions = Range(ItemsKept(data["text_extensions"].items))
                 /\ IsListAt(file.value, "ignore_patterns") =>
                       cfg.ignore_patterns = ItemsKept(data["ignore_patterns"].items)
                 /\ _load_config_file(KnownPart(file)).value = cfg

\* a Config resolved from a file with comment keys in both maps and a
\* comment in a list, and from a file with a comment pattern before two
\* patterns and a top-level key that is none of the five
C21_Witness ==
    /\ Resolved
    /\ result.directory = <<"p", "q", "r">>
    /\ dir_files[<<"p">>] = UpperDoc
    /\ dir_files[<<"p", "q", "r">>] = LocalDoc
    /\ "local/" \in Range(result.config.ignore_patterns)
    /\ ".p" \in result.config.text_extensions
    /\ KnownPart(LocalDoc) # LocalDoc

AssocLangs == {"lang-1", "lang-2"}
AssocDefaults == {"", "text", "plain"}

\* Configs that differ in one map key, one extension and the default language
AssocMapConfigs ==
    {Config(lm, lm, te, <<>>, dl) :
        lm \in Dicts({".a"}, AssocLangs), te \in SUBSET {".a"}, dl \in AssocDefaults}

\* Configs that differ in their ignore_patterns
AssocPatternConfigs ==
    {Config(EmptyDict, EmptyDict, {}, ip, "") : ip \in Lists({"x", "y"}, MaxPatterns)}

AssocConfigs == AssocMapConfigs \cup AssocPatternConfigs

InitAssoc ==
    /\ cfgA \in AssocConfigs
    /\ cfgB \in AssocConfigs
    /\ cfgC \in AssocConfigs
    /\ merged = None
    /\ regrouped = None
    /\ IdleObjects
    /\ IdleManager

\* merged = (cfgA.merge(cfgB)).merge(cfgC)
MergeLeftFirst ==
    /\ merged = None
    /\ merged' = merge(merge(cfgA, cfgB), cfgC)
    /\ UNCHANGED <<cfgA, cfgB, cfgC, regrouped, heap, refA, refB, refMerged, fsVars,
                   managerVars, exportVars, classifyVars, mainVars>>

\* regrouped = cfgA.merge(cfgB.merge(cfgC))
MergeRightFirst ==
    /\ regrouped = None
    /\ regrouped' = merge(cfgA, merge(cfgB, cfgC))
    /\ UNCHANGED <<cfgA, cfgB, cfgC, merged, heap, refA, refB, refMerged, fsVars,
                   managerVars, exportVars, classifyVars, mainVars>>

NextAssoc == MergeLeftFirst \/ MergeRightFirst

SpecAssoc == InitAssoc /\ [][NextAssoc]_vars

(***************************************************************************)
(* C23, as stated: Config.merge is not associative: there are Configs A,   *)
(* B and C for which (A.merge(B)).merge(C) and A.merge(B.merge(C)) differ  *)
(* in some field.  Stated of the state in which both groupings of three   *)
(* Configs have been computed: some three Configs of the inputs differ.    *)
(***************************************************************************)
C23_MergeIsNotAssociative ==
    (merged # None /\ regrouped # None) =>
        \E a, b, c \in AssocConfigs :
            \E field \in {"language_map", "filename_map", "text_extensions",
                          "ignore_patterns", "default_language"} :
                merge(merge(a, b), c)[field] # merge(a, merge(b, c))[field]

(***************************************************************************)
(* C23, amended: Config.merge is associative: for all Configs A, B and C,  *)
(* (A.merge(B)).merge(C) and A.merge(B.merge(C)) are equal in every field. *)
(***************************************************************************)
C23_MergeIsAssociative ==
    (merged # None /\ regrouped # None) =>
        /\ merged.language_map = regrouped.language_map
        /\ merged.filename_map = regrouped.filename_map
        /\ merged.text_extensions = regrouped.text_extensions
        /\ merged.ignore_patterns = regrouped.ignore_patterns
        /\ merged.default_language = regrouped.default_language

\* both groupings computed for three Configs whose lists repeat and share
\* values, and for three that set different languages for one key
C23_Witness ==
    /\ merged # None
    /\ regrouped # None
    /\ \/ /\ cfgA.ignore_patterns = <<"x", "x">>
          /\ cfgB.ignore_patterns = <<"y", "x">>
          /\ cfgC.ignore_patterns = <<"y", "y">>
       \/ /\ ".a" \in DOMAIN cfgA.language_map
          /\ ".a" \in DOMAIN cfgB.language_map
          /\ cfgB.language_map[".a"] # cfgA.language_map[".a"]
          /\ cfgC.default_language = ""
          /\ cfgB.default_language = "text"
          /\ cfgA.default_language = "plain"

(***************************************************************************)
(* C24: the default language of A.merge(B) is B's when B's is non-empty    *)
(* and A's otherwise; a resolved Config has the default language of the    *)
(* highest-precedence layer (built-in default, global config, the          *)
(* .ctxport.json files from the root down to the target) that sets a       *)
(* non-empty one, so a nearer file that omits default_language or sets it  *)
(* to "" does not reset the one a lower layer set.                         *)
(***************************************************************************)
\* the default_language a .ctxport.json contributes
LayerDefault(file) ==
    IF file # Absent /\ _load_config_file(file).ok
    THEN _load_config_file(file).value.default_language ELSE ""

\* the default_language of the built-in default, of the global config and of
\* the files of the directories dirs, lowest precedence first
DefaultLanguageLayers(dirs) ==
    <<DefaultConfigValue.default_language, _global_config.default_language>>
        \o [i \in 1..Len(dirs) |-> LayerDefault(dir_files[dirs[i]])]

\* the value of the highest layer that is not "", "" when there is none
HighestNonEmpty(layers) ==
    LET set == {i \in 1..Len(layers) : layers[i] # ""}
    IN IF set = {} THEN "" ELSE layers[CHOOSE i \in set : \A j \in set : j <= i]

C24_DefaultLanguageOfHighestLayer ==
    Resolved =>
        result.config.default_language
            = HighestNonEmpty(DefaultLanguageLayers(FromRoot(result.directory)))

\* the same of the layers below the root directory, the ones the walk of
\* get_config_for_directory collects
C24_DefaultLanguageBelowRoot ==
    Resolved =>
        result.config.default_language
            = HighestNonEmpty(DefaultLanguageLayers(Tail(FromRoot(result.directory))))

\* /p sets a default language, /p/q sets "" and /p/q/r omits the key, above
\* a global config that sets another one
C24_WitnessBelowRoot ==
    /\ Resolved
    /\ result.directory = <<"p", "q", "r">>
    /\ _global_config.default_language = "text"
    /\ dir_files[<<"p">>] = UpperDoc
    /\ dir_files[<<"p", "q">>] = MiddleDoc
    /\ dir_files[<<"p", "q", "r">>] = LocalDoc
    /\ result.config.default_language = "p-lang"

\* the rule of one merge
C24_MergeDefaultLanguage ==
    merged # None =>
        merged.default_language
            = (IF cfgB.default_language # "" THEN cfgB.default_language
               ELSE cfgA.default_language)

C24_WitnessMerge ==
    /\ merged # None
    /\ cfgA.default_language = "text"
    /\ cfgB.default_language = ""
    /\ merged.default_language = "text"

(***************************************************************************)
(* C25: an ignore pattern that does not end in '/' excludes a file exactly *)
(* when it matches, as a glob, the file's whole relative path or one       *)
(* component of it (a directory name or the file's name); the pattern list *)
(* excludes a file exactly when at least one of its patterns does.         *)
(***************************************************************************)
NonDirectoryPattern(pattern) == ~EndsWith(pattern, "/")

GlobMatches(pattern, path) ==
    \/ fnmatch(PathStr(path), pattern)
    \/ \E k \in 1..Len(path) : fnmatch(path[k], pattern)

\* what should_ignore returns for the path when the list holds this pattern only
ExcludedByPatternAlone(pattern, path) ==
    should_ignore([file_filter.config EXCEPT !.ignore_patterns = <<pattern>>], tree, path)

C25_GlobPatternExcludes ==
    LET call == classified.should_include_file
    IN (file_filter # None /\ call # None /\ name(call.path) \notin _always_ignore_files) =>
           LET patterns == Range(file_filter.config.ignore_patterns)
           IN /\ \A pattern \in patterns :
                    NonDirectoryPattern(pattern) =>
                        (ExcludedByPatternAlone(pattern, call.path)
                             <=> GlobMatches(pattern, call.path))
              /\ call.ignored
                     <=> \E pattern \in patterns :
                             IF NonDirectoryPattern(pattern)
                             THEN GlobMatches(pattern, call.path)
                             ELSE ExcludedByPatternAlone(pattern, call.path)
              /\ call.ignored => ~call.included

\* a file excluded by one pattern of several, which matches a directory name
\* of its path and neither its whole path nor its name
C25_Witness ==
    LET call == classified.should_include_file
    IN /\ file_filter # None
       /\ call # None
       /\ call.ignored
       /\ Len(file_filter.config.ignore_patterns) > 1
       /\ \E pattern \in Range(file_filter.config.ignore_patterns) :
             /\ NonDirectoryPattern(pattern)
             /\ \E k \in 1..(Len(call.path) - 1) : fnmatch(call.path[k], pattern)
             /\ ~fnmatch(PathStr(call.path), pattern)
             /\ ~fnmatch(name(call.path), pattern)
             /\ \A other \in Range(file_filter.config.ignore_patterns) \ {pattern} :
                   ~ExcludedByPatternAlone(other, call.path)

(***************************************************************************)
(* C26: the global config is loaded at most once between cache clears:     *)
(* once a resolve has loaded it, only clear_cache changes the memoized     *)
(* global Config, and every later resolve that misses the cache merges     *)
(* that Config, whatever was done to the global config files in between;   *)
(* when no global file exists, the resolve that loads it memoizes an empty *)
(* Config and raises nothing on its account.                               *)
(***************************************************************************)
\* a .ctxport.json of the walk from the directory that raises when loaded
SomeDirFileRaises(d) ==
    ~merged_config(CurrentFiles, DefaultConfigValue, EmptyConfig, d).ok

C26_GlobalConfigLoadedOnce ==
    [][/\ _global_config # None =>
             \/ _global_config' = _global_config
             \/ /\ _global_config' = None
                /\ result'.call = "clear_cache"
       /\ \A d \in ResolveDirs :
             (get_config_for_directory(d) /\ d \notin DOMAIN _cached_configs) =>
                 /\ _global_config # None =>
                       (IF result'.raised THEN Raised(result'.error)
                        ELSE Returned(result'.config))
                           = merged_config(CurrentFiles, DefaultConfigValue,
                                           _global_config, d)
                 /\ (_global_config = None
                        /\ \A i \in 1..Len(config_locations(CurrentFiles)) :
                              config_locations(CurrentFiles)[i] = Absent) =>
                       /\ _global_config' = EmptyConfig
                       /\ result'.raised => SomeDirFileRaises(d)]_vars

\* two directories resolved, the second by a merge with the memoized global
\* Config when the global files, changed since the first resolve, would load
\* as another one
C26_Witness ==
    /\ Resolved
    /\ result.via = "merge"
    /\ result.after_changes = fs_changes
    /\ DOMAIN _cached_configs = ResolveDirs
    /\ FirstLoaded(config_locations(CurrentFiles)) # _global_config
    /\ Returned(result.config)
           = merged_config(CurrentFiles, DefaultConfigValue, _global_config, result.directory)
    /\ Returned(result.config)
           # merged_config(CurrentFiles, DefaultConfigValue,
                           FirstLoaded(config_locations(CurrentFiles)), result.directory)

(***************************************************************************)
(* C27: after clear_cache the per-directory cache and the memoized global  *)
(* config are empty, and the next resolve of any directory reads the       *)
(* global, per-directory and legacy files again: its outcome is that of a  *)
(* resolution of the files as they are at the call by a ConfigManager that *)
(* has cached nothing, not the value cached before.                        *)
(***************************************************************************)
\* what a ConfigManager that has loaded nothing gives for d on the files as
\* they are
FreshResolution(d) ==
    merged_config(CurrentFiles, DefaultConfigValue,
                  FirstLoaded(config_locations(CurrentFiles)), d)

C27_ClearCacheForcesReload ==
    /\ (result # None /\ result.call = "clear_cache") =>
          /\ _cached_configs = EmptyDict
          /\ _global_config = None
    /\ (/\ result # None
        /\ result.call = "get_config_for_directory"
        /\ result.after_clear
        /\ result.after_changes = fs_changes) =>
          /\ result.via = "merge"
          /\ (IF result.raised THEN Raised(result.error) ELSE Returned(result.config))
                 = FreshResolution(result.directory)
          /\ _global_config = FirstLoaded(config_locations(CurrentFiles))

\* the first resolve after a clear_cache returned, for a directory whose
\* dropped cache entry was another Config, with another global config than
\* the one memoized before
C27_Witness ==
    /\ Resolved
    /\ result.after_clear
    /\ result.after_changes = fs_changes
    /\ result.directory \in DOMAIN result.dropped
    /\ result.dropped[result.directory] # result.config
    /\ \E other \in DOMAIN result.dropped \ {result.directory} :
          result.dropped[other].language_map # result.config.language_map
    /\ _global_config # EmptyConfig
    /\ ignore_files[result.directory] # Absent

(***************************************************************************)
(* C28: layers only add ignore patterns and text extensions: a resolved    *)
(* Config contains every built-in default ignore pattern and text          *)
(* extension and every ignore pattern and text extension of every layer    *)
(* (the global config, the .ctxport.json of every directory from the root  *)
(* down to the target, the target's context.ignore); no layer removes one  *)
(* that a lower layer set.                                                 *)
(***************************************************************************)
\* the Config a .ctxport.json contributes
LayerConfig(file) ==
    IF file # Absent /\ _load_config_file(file).ok
    THEN _load_config_file(file).value ELSE EmptyConfig

\* every layer that applies to the target d, the .ctxport.json files being
\* those of the directories dirs
AdditiveLayers(dirs, d) ==
    <<DefaultConfigValue, _global_config>>
        \o [i \in 1..Len(dirs) |-> LayerConfig(dir_files[dirs[i]])]
        \o <<Config(EmptyDict, EmptyDict, {},
                    _load_legacy_ignore_file(ignore_files[d]), "")>>

ContainsLayers(cfg, layers) ==
    \A i \in 1..Len(layers) :
        /\ Range(layers[i].ignore_patterns) \subseteq Range(cfg.ignore_patterns)
        /\ layers[i].text_extensions \subseteq cfg.text_extensions

C28_LayersOnlyAdd ==
    Resolved =>
        ContainsLayers(result.config,
                       AdditiveLayers(FromRoot(result.directory), result.directory))

\* the same of the layers below the root directory, the ones the walk of
\* get_config_for_directory collects
C28_LayersBelowRootOnlyAdd ==
    Resolved =>
        ContainsLayers(result.config,
                       AdditiveLayers(Tail(FromRoot(result.directory)), result.directory))

\* a Config resolved from a global config, three .ctxport.json files and a
\* context.ignore that each set a pattern or an extension of their own
C28_WitnessBelowRoot ==
    /\ Resolved
    /\ result.directory = <<"p", "q", "r">>
    /\ "xdg-cache/" \in Range(_global_config.ignore_patterns)
    /\ dir_files[<<"p">>] = UpperDoc
    /\ dir_files[<<"p", "q">>] = MiddleDoc
    /\ dir_files[<<"p", "q", "r">>] = LocalDoc
    /\ ignore_files[<<"p", "q", "r">>] = LegacyLines
    /\ {"xdg-cache/", "*.log", "local/", "legacy/", ".git/"}
           \subseteq Range(result.config.ignore_patterns)
    /\ {".p", ".py"} \subseteq result.config.text_extensions

(***************************************************************************)
(* SpecDefaults: a ConfigManager on Config objects.  DEFAULT_CONFIG,       *)
(* _global_config, the values of _cached_configs and the Config a resolve  *)
(* returns are Config objects, each field referring to an object of the    *)
(* heap; the caller changes the Configs it was given.                      *)
(***************************************************************************)
MaxHeapObjects == 30

\* Config(...): a new Config object of these contents
new_config(h, contents) ==
    [heap |-> h \o Objects(contents), refs |-> Refs(Len(h), contents.default_language)]

\* Config.get_default_config on the class attribute DEFAULT_CONFIG
get_default_config_object(h) ==
    IF DEFAULT_CONFIG = None THEN new_config(h, DefaultConfigValue)
    ELSE [heap |-> h, refs |-> DEFAULT_CONFIG]

\* ConfigManager._load_global_config
_load_global_config_object(h) ==
    IF _global_config # None THEN [heap |-> h, refs |-> _global_config]
    ELSE new_config(h, FirstLoaded(config_locations(CurrentFiles)))

\* merged_config = merged_config.merge(dir_config) for each loaded Config
RECURSIVE merge_each_object(_, _)
merge_each_object(so_far, configs) ==
    IF configs = <<>> THEN so_far
    ELSE LET dir_config == new_config(so_far.heap, Head(configs))
         IN merge_each_object(
                merge_objects(dir_config.heap, so_far.refs, dir_config.refs),
                Tail(configs))

\* lines 118 to 140 of get_config_for_directory on objects
merged_config_object(h, directory) ==
    LET default_config == get_default_config_object(h)
        global_config == _load_global_config_object(default_config.heap)
        files == merge_order(config_files(CurrentFiles, directory))
        legacy_patterns == _load_legacy_ignore_file(ignore_files[directory])
        configs ==
            [i \in 1..Len(files) |-> _load_config_file(dir_files[files[i]]).value]
                \o (IF legacy_patterns # <<>>
                    THEN <<Config(EmptyDict, EmptyDict, {}, legacy_patterns, "")>>
                    ELSE <<>>)
    IN [default_config |-> default_config.refs,
        global_config |-> global_config.refs,
        returned |->
            merge_each_object(
                merge_objects(global_config.heap, default_config.refs, global_config.refs),
                configs)]

\* well-formed config files that do not change
InitDefaultsFiles ==
    /\ home = HomeOutside
    /\ xdg_config_home = TRUE
    /\ xdg_file \in {Absent, XdgDoc}
    /\ dotconfig_file = Absent
    /\ dir_files \in {[d \in AllDirs |-> IF d \in present THEN DirDoc(d) ELSE Absent] :
                         present \in SUBSET ResolveDirs}
    /\ ignore_files \in {[d \in AllDirs |-> IF d \in present THEN LegacyLines ELSE Absent] :
                            present \in SUBSET {<<"p", "q", "r">>}}
    /\ fs_changes = 0

InitDefaults ==
    /\ cfgA = EmptyConfig /\ cfgB = EmptyConfig /\ merged = None /\ IdleThird
    /\ heap = <<>> /\ refA = None /\ refB = None /\ refMerged = None
    /\ IdleExport
    /\ InitManager
    /\ InitDefaultsFiles

\* get_config_for_directory(directory)
ResolveObject ==
    /\ \E directory \in ResolveDirs :
          IF is_cached(directory)
          THEN /\ result' = Outcome(directory, "cache", Returned(_cached_configs[directory]))
               /\ UNCHANGED <<DEFAULT_CONFIG, _global_config, _cached_configs, heap>>
          ELSE /\ LET r == merged_config_object(heap, directory)
                  IN /\ DEFAULT_CONFIG' = r.default_config
                     /\ _global_config' = r.global_config
                     /\ heap' = r.returned.heap
                     /\ result' = Outcome(directory, "merge", Returned(r.returned.refs))
                     /\ _cached_configs' =
                            [d \in (DOMAIN _cached_configs) \cup {directory} |->
                                IF d = directory THEN r.returned.refs
                                ELSE _cached_configs[d]]
    /\ UNCHANGED <<cfgA, cfgB, cfgC, merged, regrouped, refA, refB, refMerged, fsVars,
                   exportVars, classifyVars, mainVars>>

\* clear_cache(), while the heap holds fewer than MaxHeapObjects objects
ClearCacheObject ==
    /\ Len(heap) < MaxHeapObjects
    /\ clear_cache
    /\ UNCHANGED <<mergeVars, fsVars, exportVars, classifyVars, mainVars>>

\* the caller changes every field of the Config the latest resolve returned:
\* config.language_map['.new'] = 'new-lang'; config.filename_map.clear();
\* config.text_extensions.add('.new'); config.ignore_patterns.clear()
ChangeResolved ==
    /\ Resolved
    /\ heap' = [heap EXCEPT
                   ![result.config.language_map] =
                       DictObject(DictUnion(@.dict, ".new" :> "new-lang")),
                   ![result.config.filename_map] = DictObject(EmptyDict),
                   ![result.config.text_extensions] = SetObject(@.set \cup {".new"}),
                   ![result.config.ignore_patterns] = ListObject(<<>>)]
    /\ heap' # heap
    /\ UNCHANGED <<cfgA, cfgB, cfgC, merged, regrouped, refA, refB, refMerged, fsVars,
                   managerVars, exportVars, classifyVars, mainVars>>

NextDefaults == ResolveObject \/ ClearCacheObject \/ ChangeResolved

SpecDefaults == InitDefaults /\ [][NextDefaults]_vars

(***************************************************************************)
(* C29: after any sequence of resolve and clear_cache calls the shared     *)
(* default Config has the contents it was built with, and no Config that a *)
(* resolve returned is the default object or shares a map, set or list     *)
(* with it, so that changing a returned Config does not change the         *)
(* defaults of later resolutions.                                          *)
(***************************************************************************)
ContainerObjects(refs) == {refs[ContainerFields[field]] : field \in 1..4}

C29_DefaultConfigIsNeverShared ==
    /\ DEFAULT_CONFIG # None => Deref(heap, DEFAULT_CONFIG) = DefaultConfigValue
    /\ Resolved =>
          /\ result.config # DEFAULT_CONFIG
          /\ ContainerObjects(result.config) \cap ContainerObjects(DEFAULT_CONFIG) = {}
    /\ \A d \in DOMAIN _cached_configs :
          ContainerObjects(_cached_configs[d]) \cap ContainerObjects(DEFAULT_CONFIG) = {}

\* a resolve, after a clear_cache, of a directory without any config file,
\* whose Config returned before the caller has changed in every field
C29_Witness ==
    /\ Resolved
    /\ result.via = "merge"
    /\ result.after_clear
    /\ result.directory \in DOMAIN result.dropped
    /\ xdg_file = Absent
    /\ \A d \in AllDirs : dir_files[d] = Absent /\ ignore_files[d] = Absent
    /\ Deref(heap, result.config) = DefaultConfigValue
    /\ LET before == Deref(heap, result.dropped[result.directory])
       IN /\ ".new" \in DOMAIN before.language_map
          /\ before.filename_map = EmptyDict
          /\ ".new" \in before.text_extensions
          /\ before.ignore_patterns = <<>>

(***************************************************************************)
(* C30: export_directory on a CodeExporter whose set_directory was never   *)
(* called raises RuntimeError: the formatter receives no begin_document,   *)
(* add_file, add_error or end_document call, and no file is enumerated or  *)
(* read.                                                                   *)
(***************************************************************************)
C30_ExportWithoutDirectoryRaises ==
    (exported # None /\ exported.call = "export_directory" /\ exporter.directory = None) =>
        /\ exported.raised
        /\ exported.error = "RuntimeError"
        /\ formatter = <<>>
        /\ exported.enumerated = {}
        /\ exported.file_count = 0
        /\ exporter.config = None

\* export_directory called before set_directory on a directory that holds a
\* file an export would add
C30_Witness ==
    /\ exported # None
    /\ exported.call = "export_directory"
    /\ exporter.directory = None
    /\ \E path \in DOMAIN tree :
          should_include_file(DefaultConfigValue, tree, path)

=============================================================================
